---------------------------- MODULE Spec2Model ----------------------------
(***************************************************************************)
(* A model of the bencode codec: the decoder of src/src/de.rs (a cursor    *)
(* over an immutable byte buffer, driven shape by shape), the encoder of   *)
(* src/src/ser.rs and the error values of src/src/error.rs.                *)
(*                                                                         *)
(* Bytes are their ASCII codes.  A 64-bit word is four 16-bit limbs, least *)
(* significant first, so that the arithmetic of the code (n * 10 + digit   *)
(* in a u64, the cast to i64, wrapping_neg, the range checks of            *)
(* FromPrimitive) is computed at its real width.                           *)
(***************************************************************************)
EXTENDS Integers, Sequences, FiniteSets, TLC

(***************************************************************************)
(* Bytes of the wire grammar.                                              *)
(***************************************************************************)
Ch_i == 105
Ch_e == 101
Ch_l == 108
Ch_d == 100
Ch_colon == 58
Ch_minus == 45
Ch_0 == 48
Ch_1 == 49
Ch_9 == 57

\* IsDigit with the upper end of the range one byte too far.
IsDigit_ThroughColon(c) == Ch_0 <= c /\ c <= Ch_colon

IsDigit(c) == Ch_0 <= c /\ c <= Ch_9

(***************************************************************************)
(* 64-bit words.                                                           *)
(***************************************************************************)
LimbBase == 2 ^ 16

U64Zero == <<0, 0, 0, 0>>
U64Max == <<65535, 65535, 65535, 65535>>

U64OfSmall(k) == <<k, 0, 0, 0>>

\* n * 10 + d, at full precision: the low 64 bits and the carry out of them.
MulTenAdd(n, d) ==
    LET t1 == n[1] * 10 + d
        t2 == n[2] * 10 + (t1 \div LimbBase)
        t3 == n[3] * 10 + (t2 \div LimbBase)
        t4 == n[4] * 10 + (t3 \div LimbBase)
    IN  [lo |-> <<t1 % LimbBase, t2 % LimbBase, t3 % LimbBase, t4 % LimbBase>>,
         carry |-> t4 \div LimbBase]

\* a + b, at full precision.
U64Add(a, b) ==
    LET t1 == a[1] + b[1]
        t2 == a[2] + b[2] + (t1 \div LimbBase)
        t3 == a[3] + b[3] + (t2 \div LimbBase)
        t4 == a[4] + b[4] + (t3 \div LimbBase)
    IN  [lo |-> <<t1 % LimbBase, t2 % LimbBase, t3 % LimbBase, t4 % LimbBase>>,
         carry |-> t4 \div LimbBase]

U64Less(a, b) ==
    \/ a[4] < b[4]
    \/ a[4] = b[4] /\ a[3] < b[3]
    \/ a[4] = b[4] /\ a[3] = b[3] /\ a[2] < b[2]
    \/ a[4] = b[4] /\ a[3] = b[3] /\ a[2] = b[2] /\ a[1] < b[1]

U64Leq(a, b) == a = b \/ U64Less(a, b)

\* Two's complement negation of a 64-bit pattern: (~w) + 1, modulo 2^64.
U64Neg(w) ==
    U64Add(<<65535 - w[1], 65535 - w[2], 65535 - w[3], 65535 - w[4]>>,
           U64OfSmall(1)).lo

\* The sign bit of a 64-bit pattern read as an i64.
SignBit(w) == w[4] >= 32768

\* w \div 10 and w % 10 (long division, most significant limb first).
DivModTen(w) ==
    LET c4 == w[4]
        c3 == (c4 % 10) * LimbBase + w[3]
        c2 == (c3 % 10) * LimbBase + w[2]
        c1 == (c2 % 10) * LimbBase + w[1]
    IN  [q |-> <<c1 \div 10, c2 \div 10, c3 \div 10, c4 \div 10>>, r |-> c1 % 10]

(***************************************************************************)
(* Mathematical integers, as the visitor receives them: a sign and a       *)
(* magnitude below 2^64.  Zero has neg = FALSE.                            *)
(***************************************************************************)
IntVal(neg, mag) == [v |-> "int", neg |-> neg, mag |-> mag]

\* The value of a u64.
OfU64(w) == IntVal(FALSE, w)

\* The value of a 64-bit pattern read as an i64.
OfI64(w) == IF SignBit(w) THEN IntVal(TRUE, U64Neg(w)) ELSE IntVal(FALSE, w)

\* 2^(bits-1) and 2^bits - 1 for the integer widths of the visitor protocol.
PowHalf(bits) ==
    CASE bits = 8 -> <<128, 0, 0, 0>>
      [] bits = 16 -> <<32768, 0, 0, 0>>
      [] bits = 32 -> <<0, 32768, 0, 0>>
      [] bits = 64 -> <<0, 0, 0, 32768>>

MaxUnsigned(bits) ==
    CASE bits = 8 -> <<255, 0, 0, 0>>
      [] bits = 16 -> <<65535, 0, 0, 0>>
      [] bits = 32 -> <<65535, 65535, 0, 0>>
      [] bits = 64 -> U64Max

\* Whether the integer x is a value of the type (signed, bits).
InRange(signed, bits, x) ==
    IF signed
    THEN IF x.neg THEN U64Leq(x.mag, PowHalf(bits)) ELSE U64Less(x.mag, PowHalf(bits))
    ELSE (~x.neg \/ x.mag = U64Zero) /\ U64Leq(x.mag, MaxUnsigned(bits))


\* FromPrimitive::from_u64 into the integer type ty: <<value>>, or <<>> for None.
FromU64(ty, w) ==
    IF InRange(ty.signed, ty.bits, OfU64(w)) THEN <<OfU64(w)>> ELSE <<>>

\* FromPrimitive::from_i64 into the integer type ty, of a 64-bit pattern.
FromI64(ty, w) ==
    IF InRange(ty.signed, ty.bits, OfI64(w)) THEN <<OfI64(w)>> ELSE <<>>

(***************************************************************************)
(* Types (the shape a caller requests) and values.                         *)
(***************************************************************************)
TInt(signed, bits) == [t |-> "int", signed |-> signed, bits |-> bits]
TUsize == TInt(FALSE, 64)
TBool == [t |-> "bool"]
TStr == [t |-> "str"]
TBytes == [t |-> "bytes"]
TUnit == [t |-> "unit"]
TIgnored == [t |-> "ignored"]
TOption(inner) == [t |-> "option", inner |-> inner]
TSeq(elem) == [t |-> "seq", elem |-> elem]
TTuple(elems) == [t |-> "tuple", elems |-> elems]
TMap(key, val) == [t |-> "map", key |-> key, val |-> val]
TStruct(names, tys) == [t |-> "struct", names |-> names, tys |-> tys]
TUnitStruct == [t |-> "unit_struct"]
\* An enum: per variant its name, its kind ("unit", "newtype", "tuple",
\* "struct") and the type of its payload (a tuple type for a tuple variant,
\* a struct type for a struct variant, TUnit for a unit variant).
TEnum(names, kinds, tys) == [t |-> "enum", names |-> names, kinds |-> kinds, tys |-> tys]

BoolVal(b) == [v |-> "bool", bit |-> b]
BytesVal(b) == [v |-> "bytes", b |-> b]
UnitVal == [v |-> "unit"]
NoneVal == [v |-> "none"]
SomeVal(x) == [v |-> "some", x |-> x]
SeqVal(e) == [v |-> "seq", e |-> e]
MapVal(m) == [v |-> "map", m |-> m]
StructVal(f) == [v |-> "struct", f |-> f]
IgnoredVal == [v |-> "ignored"]
EnumVal(name, x) == [v |-> "enum", name |-> name, x |-> x]

\* The position of the variant named name in the enum type t, or 0.
VariantIndex(t, name) ==
    IF \E i \in 1..Len(t.names) : t.names[i] = name
    THEN CHOOSE i \in 1..Len(t.names) : t.names[i] = name
    ELSE 0

(***************************************************************************)
(* The encoder (src/src/ser.rs).  The sink of to_bytes is a Vec<u8>, whose *)
(* writes cannot fail: the output is the concatenation of the writes.      *)
(***************************************************************************)
\* The decimal digits of w, most significant first, none for zero; dm is
\* the quotient and the remainder of w by ten.
RECURSIVE DecDigits(_)
DecDigits(w) ==
    IF w = U64Zero THEN <<>>
    ELSE CHOOSE s \in {Append(DecDigits(dm.q), Ch_0 + dm.r) : dm \in {DivModTen(w)}} : TRUE

\* itoa::Buffer::format that writes no digit for zero.
ItoaU64_NoZero(w) == DecDigits(w)

\* itoa::Buffer::format of an unsigned word.
ItoaU64(w) == IF w = U64Zero THEN <<Ch_0>> ELSE DecDigits(w)

\* itoa::Buffer::format of a signed value.
ItoaI64(x) == IF x.neg THEN <<Ch_minus>> \o ItoaU64(x.mag) ELSE ItoaU64(x.mag)

serialize_i64(x) == <<Ch_i>> \o ItoaI64(x) \o <<Ch_e>>

serialize_u64(x) == <<Ch_i>> \o ItoaU64(x.mag) \o <<Ch_e>>

serialize_bool(b) ==
    IF b THEN serialize_i64(IntVal(FALSE, U64OfSmall(1)))
    ELSE serialize_i64(IntVal(FALSE, U64Zero))

\* serialize_str that declares the number of characters (v.chars().count()).
serialize_str_CharCount(b) ==
    LET chars == Cardinality({i \in 1..Len(b) : b[i] \notin 128..191})
    IN  ItoaU64(U64OfSmall(chars)) \o <<Ch_colon>> \o b

serialize_str(b) == ItoaU64(U64OfSmall(Len(b))) \o <<Ch_colon>> \o b

serialize_bytes(b) == ItoaU64(U64OfSmall(Len(b))) \o <<Ch_colon>> \o b

\* serialize_unit that writes an empty string token.
serialize_unit_EmptyString == <<Ch_0, Ch_colon>>

\* serialize_unit: Ok(()), nothing written.
serialize_unit == <<>>

\* SerializeTupleVariant::end and SerializeStructVariant::end with one 'e'.
SerializeVariant_end_One == <<Ch_e>>

\* SerializeTupleVariant::end and SerializeStructVariant::end: "ee".
SerializeVariant_end == <<Ch_e, Ch_e>>

RECURSIVE Serialize(_, _)
RECURSIVE SerializeVariant(_, _, _)
RECURSIVE SerializeElements(_, _, _)
RECURSIVE SerializeEntries(_, _, _)
RECURSIVE SerializeFields(_, _, _)

\* SerializeSeq::serialize_element for the elements from position i on.
SerializeElements(tys, e, i) ==
    IF i > Len(e) THEN <<>>
    ELSE Serialize(tys[i], e[i]) \o SerializeElements(tys, e, i + 1)

\* SerializeMap that writes the last entry first.
RECURSIVE SerializeEntries_Reversed(_, _, _)
SerializeEntries_Reversed(ty, e, i) ==
    IF i > Len(e) THEN <<>>
    ELSE SerializeEntries_Reversed(ty, e, i + 1)
         \o Serialize(ty.key, BytesVal(e[i][1])) \o Serialize(ty.val, e[i][2])

\* SerializeMap::serialize_key and serialize_value for the entries from i on.
SerializeEntries(ty, e, i) ==
    IF i > Len(e) THEN <<>>
    ELSE Serialize(ty.key, BytesVal(e[i][1])) \o Serialize(ty.val, e[i][2])
         \o SerializeEntries(ty, e, i + 1)

\* SerializeStruct::serialize_field for the fields from i on.
SerializeFields(ty, e, i) ==
    IF i > Len(e) THEN <<>>
    ELSE serialize_str(ty.names[i]) \o Serialize(ty.tys[i], e[i])
         \o SerializeFields(ty, e, i + 1)

\* value.serialize(&mut serializer) for a value x of type ty.
Serialize(ty, x) ==
    CASE ty.t = "int" -> IF ty.signed THEN serialize_i64(x) ELSE serialize_u64(x)
      [] ty.t = "bool" -> serialize_bool(x.bit)
      [] ty.t = "str" -> serialize_str(x.b)
      [] ty.t = "bytes" -> serialize_bytes(x.b)
      [] ty.t = "unit" -> serialize_unit
      [] ty.t = "option" ->
            IF x.v = "none" THEN serialize_unit ELSE Serialize(ty.inner, x.x)
      [] ty.t = "seq" ->
            <<Ch_l>> \o SerializeElements([i \in 1..Len(x.e) |-> ty.elem], x.e, 1)
            \o <<Ch_e>>
      [] ty.t = "tuple" ->
            <<Ch_l>> \o SerializeElements(ty.elems, x.e, 1) \o <<Ch_e>>
      [] ty.t = "map" -> <<Ch_d>> \o SerializeEntries(ty, x.m, 1) \o <<Ch_e>>
      [] ty.t = "struct" -> <<Ch_d>> \o SerializeFields(ty, x.f, 1) \o <<Ch_e>>
      [] ty.t = "unit_struct" -> serialize_unit
      [] ty.t = "enum" -> SerializeVariant(ty, VariantIndex(ty, x.name), x.x)

\* serialize_unit_variant, serialize_newtype_variant, serialize_tuple_variant
\* and serialize_struct_variant for the variant at position i with payload x.
SerializeVariant(ty, i, x) ==
    LET kind == ty.kinds[i]
        variant == serialize_str(ty.names[i])
    IN  CASE kind = "unit" -> variant
          [] kind = "newtype" ->
                <<Ch_d>> \o variant \o Serialize(ty.tys[i], x) \o <<Ch_e>>
          [] kind = "tuple" ->
                <<Ch_d>> \o variant \o <<Ch_l>>
                \o SerializeElements(ty.tys[i].elems, x.e, 1) \o SerializeVariant_end
          [] kind = "struct" ->
                <<Ch_d>> \o variant \o <<Ch_d>>
                \o SerializeFields(ty.tys[i], x.f, 1) \o SerializeVariant_end

to_bytes(ty, x) == Serialize(ty, x)


(***************************************************************************)
(* The decoder (src/src/de.rs).                                            *)
(*                                                                         *)
(* input  : the buffer given to from_bytes (the decoder never writes it)   *)
(* ty     : the type T the caller asked from_bytes for                     *)
(* orig   : <<x>> when input was produced by to_bytes(ty, x), else <<>>    *)
(* index  : Deserializer::index, the cursor                                *)
(* stack  : the calls in progress, innermost first; the frame of a         *)
(*          visitor holds what it has received so far                      *)
(* result : what from_bytes has returned, if it has                        *)
(* ev     : the call that the last step made or completed                  *)
(* writer : the bytes the sink given to to_writer has accepted             *)
(***************************************************************************)
VARIABLES input, ty, orig, index, stack, result, ev, writer

vars == <<input, ty, orig, index, stack, result, ev, writer>>

\* usize::MAX, the value of 0usize - 1 where the subtraction wraps: the
\* residue of -1 modulo 2^64.
UsizeWrapMinusOne == 0 - 1

Running == [st |-> "running"]
OkRes(x) == [st |-> "ok", value |-> x]
\* Error::syntax(kind, idx) and Error::eof(idx): index is Some(idx).
Error_syntax(kind, idx) == [st |-> "err", kind |-> kind, index |-> <<idx>>]
Error_eof(idx) == [st |-> "err", kind |-> "Eof", index |-> <<idx>>]
\* Error::io(err), which From<io::Error> makes of a failed write: index is
\* None.
Error_io == [st |-> "err", kind |-> "Io", index |-> <<>>]
\* de::Error::custom(msg): index is None.
Error_custom(msg) == [st |-> "err", kind |-> "Message", msg |-> msg, index |-> <<>>]
\* An arithmetic overflow in a build with overflow checks.
Panic(why) == [st |-> "panic", why |-> why]

NoTy == [t |-> "none"]
\* fn: the function; at: the cursor when the step began; start: the cursor
\* when the call of fn began; ty: the type asked for; out and ret: how the
\* step ended and what it returned; pstr: parsing_str, for parse_integer.
Ev(fn, at, t, out, ret) ==
    [fn |-> fn, start |-> at, at |-> at, ty |-> t, out |-> out, ret |-> ret,
     pstr |-> FALSE]

\* Abort that drops the error: the caller goes on as if the call had
\* returned.
Abort_Swallowed(idx, res, e) ==
    [index |-> idx, stack |-> Tail(stack), result |-> Running, ev |-> e]

\* The machine after a step that goes on, and after one that ends the call
\* of from_bytes (an error returned through every `?`, or a panic).
Step(idx, stk, e) == [index |-> idx, stack |-> stk, result |-> Running, ev |-> e]
Abort(idx, res, e) == [index |-> idx, stack |-> <<>>, result |-> res, ev |-> e]

\* error without the step back from the cursor.
error_AtCursor(reason, idx) == {Error_syntax(reason, idx)}

\* Deserializer::error at cursor idx: Error::syntax(reason, self.index - 1).
\* With the cursor at 0 the subtraction overflows: a panic where overflow is
\* checked, usize::MAX where it wraps.
error(reason, idx) ==
    IF idx >= 1 THEN {Error_syntax(reason, idx - 1)}
    ELSE {Panic("attempt to subtract with overflow"),
          Error_syntax(reason, UsizeWrapMinusOne)}

error_with_index(reason, idx) == Error_syntax(reason, idx)

\* The byte at cursor idx (input is 1-based here, the cursor 0-based).
ByteAt(idx) == input[idx + 1]

\* peek_byte and next_byte fail exactly when the cursor is at the end.
AtEof(idx) == ~(idx < Len(input))

(***************************************************************************)
(* Frames.                                                                 *)
(***************************************************************************)
F_deserialize(t) == [op |-> "deserialize", ty |-> t]
F_from_bytes == [op |-> "from_bytes", acc |-> <<>>]
F_visit_some == [op |-> "visit_some"]
F_ignore == [op |-> "ignore"]
F_to_bytes == [op |-> "to_bytes"]
\* to_writer for the value x of type t: calls is the number of write_all
\* calls that have returned, room the number of bytes the sink still
\* accepts.
F_to_writer(t, x, room) ==
    [op |-> "to_writer", ty |-> t, value |-> x, calls |-> 0, room |-> room]
\* The visitor of an enum, given an EnumAccess (form "dict") or the
\* deserializer of a string (form "str"): key is the variant's name once it
\* has been read, acc the payload once it has been read.
F_visit_enum(t, form) ==
    [op |-> "visit_enum", ty |-> t, form |-> form, key |-> <<>>, acc |-> <<>>]

\* Bound: the length up to which a Vec of zero-sized elements is tracked
\* (its elements are all equal, and nothing reads its length).
MaxUnits == 2
F_parse_bytes(t, idx) == [op |-> "parse_bytes", ty |-> t, entry |-> idx, acc |-> <<>>]

\* StartIndex without the step back to the 'i' of a number token.
StartIndex_Cursor(parsing_str, idx) == idx

\* The locals of parse_integer at the head of its loop.
StartIndex(parsing_str, idx) == IF parsing_str THEN idx ELSE idx - 1

F_parse_integer(t, parsing_str, idx) ==
    [op |-> "parse_integer", ty |-> t, parsing_str |-> parsing_str,
     entry |-> idx, start_index |-> StartIndex(parsing_str, idx),
     positive |-> TRUE, first_iter |-> TRUE, n |-> U64Zero]

F_visit_seq(t) == [op |-> "visit_seq", ty |-> t, acc |-> <<>>, done |-> FALSE]

\* The visitor of a map keeps its entries in acc; the visitor of a struct
\* keeps one slot per field, <<>> until the field has been read.
F_visit_map(t) ==
    [op |-> "visit_map", ty |-> t, key |-> <<>>, done |-> FALSE,
     acc |-> IF t.t = "struct" THEN [i \in 1..Len(t.names) |-> <<>>] ELSE <<>>]

\* The position of the field named name in the struct type t, or 0: the
\* derived field visitor maps every other name to __ignore.
FieldIndex(t, name) ==
    IF \E i \in 1..Len(t.names) : t.names[i] = name
    THEN CHOOSE i \in 1..Len(t.names) : t.names[i] = name
    ELSE 0

\* What the visitor of a map or struct holds once it is handed the value x
\* of the pending key k.
MapStore(f, k, x) ==
    IF f.ty.t = "struct"
    THEN LET i == FieldIndex(f.ty, k.b) IN
         IF i = 0 THEN f.acc ELSE [f.acc EXCEPT ![i] = <<x>>]
    ELSE IF f.ty.key.t = "ignored" THEN f.acc
    ELSE Append(f.acc, <<k.b, x>>)

\* The value x returned to the caller whose frame heads stk.
RECURSIVE Deliver(_, _)
Deliver(stk, x) ==
    LET f == Head(stk) IN
    CASE f.op = "visit_some" -> Deliver(Tail(stk), SomeVal(x))
      [] f.op = "ignore" -> Deliver(Tail(stk), IgnoredVal)
      [] f.op = "visit_seq" ->
            IF f.ty.t = "seq" /\ f.ty.elem.t = "ignored" THEN stk
            ELSE IF f.ty.t = "seq" /\ f.ty.elem.t \in {"unit", "unit_struct"}
                    /\ Len(f.acc) >= MaxUnits THEN stk
            ELSE <<[f EXCEPT !.acc = Append(@, x)]>> \o Tail(stk)
      [] f.op = "visit_enum" ->
            IF f.key = <<>> THEN <<[f EXCEPT !.key = <<x>>]>> \o Tail(stk)
            ELSE <<[f EXCEPT !.acc = <<x>>]>> \o Tail(stk)
      [] f.op = "visit_map" ->
            IF f.key = <<>> THEN <<[f EXCEPT !.key = <<x>>]>> \o Tail(stk)
            ELSE <<[f EXCEPT !.acc = MapStore(f, f.key[1], x), !.key = <<>>]>>
                 \o Tail(stk)
      [] OTHER -> <<[f EXCEPT !.acc = Append(@, x)]>> \o Tail(stk)

Top == Head(stack)
Active(op) == result = Running /\ stack # <<>> /\ Top.op = op
Calling(t) == Active("deserialize") /\ Top.ty.t = t

(***************************************************************************)
(* parse_number and parse_integer.                                         *)
(***************************************************************************)
\* parse_number: the leading 'i', then parse_integer(false).
parse_number ==
    LET t == Top.ty
        e(out) == Ev("parse_number", index, t, out, <<>>)
    IN  IF AtEof(index) THEN {Abort(index, Error_eof(index), e("err"))}
        ELSE IF ByteAt(index) # Ch_i
        THEN {Abort(index + 1, r, e("err")) : r \in error("ExpectedInteger", index + 1)}
        ELSE {Step(index + 1,
                   <<F_parse_integer(t, FALSE, index + 1)>> \o Tail(stack),
                   e("call"))}

Terminator(parsing_str) == IF parsing_str THEN Ch_colon ELSE Ch_e
Expected(parsing_str) == IF parsing_str THEN "ExpectedString" ELSE "ExpectedInteger"
ExpectedEndKind(parsing_str) ==
    IF parsing_str THEN "ExpectedStringDelim" ELSE "ExpectedEnd"

\* n as i64, then wrapping_neg: the 64-bit pattern of the negated accumulator.
WrappingNeg(n) == U64Neg(n)

\* Finish without the negation of a token that began with '-'.
Finish_SignDropped(t, positive, n) == FromU64(t, n)

\* The terminator arm: the accumulator into the target type.
Finish(t, positive, n) == IF positive THEN FromU64(t, n) ELSE FromI64(t, WrappingNeg(n))

\* n * 10 + digit that stays at u64::MAX once it has passed it.
Accumulate_Saturating(n, d) ==
    LET m == MulTenAdd(n, d) IN
    IF m.carry = 0 THEN m ELSE [lo |-> U64Max, carry |-> m.carry]

\* n = n * 10 + (c - b'0') as u64: the low 64 bits, and whether the exact
\* result has more.
Accumulate(n, d) == MulTenAdd(n, d)

\* One iteration of the loop of parse_integer.
parse_integer ==
    LET f == Top
        term == Terminator(f.parsing_str)
        expected == Expected(f.parsing_str)
        expected_end == ExpectedEndKind(f.parsing_str)
        e(out, ret) ==
            [Ev("parse_integer", index, f.ty, out, ret)
                EXCEPT !.start = f.entry, !.pstr = f.parsing_str]
        eof(idx) == {Abort(idx, Error_eof(idx), e("err", <<>>))}
        fail(idx, r) == Abort(idx, r, e("err", <<>>))
        ret(idx, x) == Step(idx, Deliver(Tail(stack), x), e("ok", <<x>>))
        loop(idx, g) == Step(idx, <<g>> \o Tail(stack), e("loop", <<>>))
        i1 == index + 1
        i2 == index + 2
    IN  IF AtEof(index) THEN eof(index)
        ELSE LET c == ByteAt(index) IN
        IF c = Ch_minus /\ f.first_iter THEN
            IF AtEof(i1) THEN eof(i1)
            ELSE IF ByteAt(i1) = Ch_0 THEN
                IF AtEof(i2) THEN eof(i2)
                ELSE IF ByteAt(i2) = term
                    THEN {fail(i2, error_with_index("MinusZero", f.start_index))}
                ELSE IF IsDigit(ByteAt(i2))
                    THEN {fail(i2, r) : r \in error("LeadingZero", i2)}
                ELSE {fail(i2, error_with_index(expected, f.start_index))}
            ELSE IF f.parsing_str
                THEN {fail(i1, error_with_index(expected, f.start_index))}
            ELSE IF ByteAt(i1) = Ch_minus
                THEN {fail(i1, error_with_index(expected, f.start_index))}
            ELSE {loop(i1, [f EXCEPT !.positive = FALSE])}
        ELSE IF c = Ch_0 /\ f.first_iter THEN
            IF AtEof(i1) THEN eof(i1)
            ELSE IF ByteAt(i1) = term
                THEN {ret(i2, Head(FromU64(f.ty, f.n)))}
            ELSE IF IsDigit(ByteAt(i1))
                THEN {fail(i1, r) : r \in error("LeadingZero", i1)}
            ELSE {loop(i1, [f EXCEPT !.first_iter = FALSE])}
        ELSE IF Ch_1 <= c /\ c <= Ch_9 /\ f.first_iter
            THEN {loop(i1, [f EXCEPT !.n = U64OfSmall(c - Ch_0), !.first_iter = FALSE])}
        ELSE IF IsDigit(c) THEN
            LET m == Accumulate(f.n, c - Ch_0) IN
            IF m.carry = 0 THEN {loop(i1, [f EXCEPT !.n = m.lo])}
            ELSE {fail(i1, Panic("attempt to multiply or add with overflow")),
                  loop(i1, [f EXCEPT !.n = m.lo])}
        ELSE IF c = term /\ ~f.first_iter THEN
            LET x == Finish(f.ty, f.positive, f.n) IN
            IF x # <<>> THEN {ret(i1, Head(x))}
            ELSE {fail(i1, error_with_index("IntegerOutOfRange", f.start_index))}
        ELSE IF f.first_iter
            THEN {fail(i1, error_with_index(expected, f.start_index))}
        ELSE {fail(i1, r) : r \in error(expected_end, i1)}

(***************************************************************************)
(* from_bytes: the value, then Deserializer::end.                          *)
(***************************************************************************)
\* EndReached that lets one byte go unread.
EndReached_OffByOne(idx) == idx + 1 >= Len(input)

EndReached(idx) == idx >= Len(input)

end ==
    LET x == Top.acc[1]
        e(out) == Ev("end", index, ty, out, <<x>>)
    IN  IF EndReached(index) THEN {Abort(index, OkRes(x), e("ok"))}
        ELSE {Abort(index, Error_syntax("TrailingCharacters", index), e("err"))}


(***************************************************************************)
(* The primitive shapes.                                                   *)
(***************************************************************************)
\* The array that parse_bool matches: [self.next_byte()?; 3] evaluates
\* next_byte once and repeats the byte it read three times.
BoolBytes(b) == <<b, b, b>>

\* deserialize_bool: parse_bool, then visit_bool.
deserialize_bool ==
    LET e(out, ret) == Ev("parse_bool", index, Top.ty, out, ret) IN
    IF AtEof(index) THEN {Abort(index, Error_eof(index), e("err", <<>>))}
    ELSE LET bytes == BoolBytes(ByteAt(index)) IN
         IF bytes = <<Ch_i, Ch_1, Ch_e>>
            THEN {Step(index + 1, Deliver(Tail(stack), BoolVal(TRUE)),
                       e("ok", <<BoolVal(TRUE)>>))}
         ELSE IF bytes = <<Ch_i, Ch_0, Ch_e>>
            THEN {Step(index + 1, Deliver(Tail(stack), BoolVal(FALSE)),
                       e("ok", <<BoolVal(FALSE)>>))}
         ELSE {Abort(index + 1, r, e("err", <<>>))
                  : r \in error("ExpectedBoolean", index + 1)}

\* deserialize_str, deserialize_bytes: the call of parse_bytes, whose first
\* statement is parse_integer(true) into a usize.
deserialize_str ==
    {Step(index,
          <<F_parse_integer(TUsize, TRUE, index), F_parse_bytes(Top.ty, index)>>
          \o Tail(stack),
          Ev("deserialize_str", index, Top.ty, "call", <<>>))}

deserialize_bytes ==
    {Step(index,
          <<F_parse_integer(TUsize, TRUE, index), F_parse_bytes(Top.ty, index)>>
          \o Tail(stack),
          Ev("deserialize_bytes", index, Top.ty, "call", <<>>))}

\* str::from_utf8 accepts b: the well-formed sequences of the Unicode
\* standard (table 3-7), from position i on.
RECURSIVE Utf8From(_, _)
Utf8From(b, i) ==
    LET c == b[i]
        cont(j, lo, hi) == j <= Len(b) /\ lo <= b[j] /\ b[j] <= hi
    IN  IF i > Len(b) THEN TRUE
        ELSE IF c < 128 THEN Utf8From(b, i + 1)
        ELSE IF 194 <= c /\ c <= 223
            THEN cont(i + 1, 128, 191) /\ Utf8From(b, i + 2)
        ELSE IF 224 <= c /\ c <= 239
            THEN /\ cont(i + 1, IF c = 224 THEN 160 ELSE 128, IF c = 237 THEN 159 ELSE 191)
                 /\ cont(i + 2, 128, 191)
                 /\ Utf8From(b, i + 3)
        ELSE IF 240 <= c /\ c <= 244
            THEN /\ cont(i + 1, IF c = 240 THEN 144 ELSE 128, IF c = 244 THEN 143 ELSE 191)
                 /\ cont(i + 2, 128, 191)
                 /\ cont(i + 3, 128, 191)
                 /\ Utf8From(b, i + 4)
        ELSE FALSE

from_utf8(b) == Utf8From(b, 1)

\* self.input.get(self.index..self.index + length): whether the range lies
\* in the input.  length is a 64-bit word, idx is below 2^16.
SliceInRange(idx, length) ==
    /\ length[2] = 0 /\ length[3] = 0 /\ length[4] = 0
    /\ idx + length[1] <= Len(input)

\* Whether self.index + length overflows a usize.
SliceEndOverflows(idx, length) == U64Add(U64OfSmall(idx), length).carry # 0

SliceBytes(idx, len) == SubSeq(input, idx + 1, idx + len)

\* self.index += length that steps over one byte more.
IndexAfter_OneMore(idx, length) == idx + length + 1

\* self.index += length.
IndexAfter(idx, length) == idx + length

\* parse_bytes from the return of parse_integer(true) on, and what the
\* caller (deserialize_str, deserialize_bytes) does with the slice.
parse_bytes ==
    LET f == Top
        length == f.acc[1].mag
        e(out, ret) == [Ev("parse_bytes", index, f.ty, out, ret) EXCEPT !.start = f.entry]
        eof == Abort(index, Error_eof(Len(input)), e("err", <<>>))
    IN  IF SliceEndOverflows(index, length)
        THEN {Abort(index, Panic("attempt to add with overflow"), e("panic", <<>>)), eof}
        ELSE IF ~SliceInRange(index, length) THEN {eof}
        ELSE LET s == SliceBytes(index, length[1])
                 idx == IndexAfter(index, length[1])
             IN  IF f.ty.t = "str" /\ ~from_utf8(s)
                 THEN {Abort(idx, r, e("ok", <<BytesVal(s)>>))
                          : r \in error("StringNotUtf8", idx)}
                 ELSE {Step(idx, Deliver(Tail(stack), BytesVal(s)),
                            e("ok", <<BytesVal(s)>>))}

\* deserialize_option that takes an 'e' at the cursor for absence too.
deserialize_option_OrEnd ==
    LET e(out) == Ev("deserialize_option", index, Top.ty, out, <<>>) IN
    IF AtEof(index) \/ ByteAt(index) = Ch_e
    THEN {Step(index, Deliver(Tail(stack), NoneVal), e("none"))}
    ELSE {Step(index, <<F_deserialize(Top.ty.inner), F_visit_some>> \o Tail(stack),
               e("some"))}

\* deserialize_option: absent exactly when nothing is left to peek.
deserialize_option ==
    LET e(out) == Ev("deserialize_option", index, Top.ty, out, <<>>) IN
    IF AtEof(index)
    THEN {Step(index, Deliver(Tail(stack), NoneVal), e("none"))}
    ELSE {Step(index, <<F_deserialize(Top.ty.inner), F_visit_some>> \o Tail(stack),
               e("some"))}

\* deserialize_unit (deserialize_unit_struct calls it): visit_unit, nothing
\* consumed.
deserialize_unit ==
    {Step(index, Deliver(Tail(stack), UnitVal),
          Ev("deserialize_unit", index, Top.ty, "ok", <<UnitVal>>))}

\* deserialize_any, as deserialize_ignored_any calls it: the visitor is
\* IgnoredAny, which drops what it is handed.
deserialize_any ==
    LET e(out) == Ev("deserialize_any", index, Top.ty, out, <<>>)
        go(t) == {Step(index, <<F_deserialize(t), F_ignore>> \o Tail(stack), e("call"))}
    IN  IF AtEof(index) THEN {Abort(index, Error_eof(index), e("err"))}
        ELSE LET c == ByteAt(index) IN
             IF c = Ch_i THEN go(TInt(TRUE, 64))
             ELSE IF IsDigit(c) THEN go(TStr)
             ELSE IF c = Ch_l THEN go(TSeq(TIgnored))
             ELSE IF c = Ch_d THEN go(TMap(TIgnored, TIgnored))
             ELSE {Abort(index, r, e("err")) : r \in error("ExpectedSomeValue", index)}


(***************************************************************************)
(* Sequences and tuples.                                                   *)
(***************************************************************************)
\* deserialize_seq up to the call of visit_seq: the leading 'l'.
deserialize_seq ==
    LET e(out) == Ev("deserialize_seq", index, Top.ty, out, <<>>) IN
    IF AtEof(index) THEN {Abort(index, Error_eof(index), e("err"))}
    ELSE IF ByteAt(index) = Ch_l
        THEN {Step(index + 1, <<F_visit_seq(Top.ty)>> \o Tail(stack), e("call"))}
    ELSE {Abort(index + 1, r, e("err")) : r \in error("ExpectedList", index + 1)}

\* The visitor of a Vec asks for elements until it is told there are no
\* more; the visitor of a tuple asks for one element per position.
SeqWantsMore(f) ==
    IF f.done THEN FALSE
    ELSE IF f.ty.t = "seq" THEN TRUE
    ELSE Len(f.acc) < Len(f.ty.elems)

ElemType(f) == IF f.ty.t = "seq" THEN f.ty.elem ELSE f.ty.elems[Len(f.acc) + 1]

\* StartsElement without the dict.
StartsElement_NoDict(c) == c = Ch_l \/ c = Ch_i \/ IsDigit(c)

\* The bytes that SeqAccess::next_element_seed takes for the start of an
\* element.
StartsElement(c) == c = Ch_l \/ c = Ch_d \/ c = Ch_i \/ IsDigit(c)

\* SeqAccess::next_element_seed, and what the visitor does with None.
next_element_seed ==
    LET f == Top
        e(out) == Ev("next_element_seed", index, f.ty, out, f.acc)
    IN  IF AtEof(index) THEN {Abort(index, Error_eof(index), e("err"))}
        ELSE LET c == ByteAt(index) IN
             IF c = Ch_e THEN
                IF f.ty.t = "tuple"
                THEN {Abort(index, Error_custom("invalid length"), e("none"))}
                ELSE {Step(index, <<[f EXCEPT !.done = TRUE]>> \o Tail(stack), e("none"))}
             ELSE IF StartsElement(c)
                THEN {Step(index, <<F_deserialize(ElemType(f))>> \o stack, e("some"))}
             ELSE {Abort(index, error_with_index("ExpectedEnd", index), e("err"))}

\* deserialize_seq from the return of visit_seq on: the closing 'e'.
deserialize_seq_close ==
    LET f == Top
        x == IF f.ty.t = "seq" /\ f.ty.elem.t = "ignored" THEN IgnoredVal
             ELSE SeqVal(f.acc)
        e(out) == Ev("deserialize_seq_close", index, f.ty, out, <<x>>)
    IN  IF AtEof(index) THEN {Abort(index, Error_eof(index), e("err"))}
        ELSE IF ByteAt(index) # Ch_e
            THEN {Abort(index + 1, r, e("err")) : r \in error("ExpectedEnd", index + 1)}
        ELSE {Step(index + 1, Deliver(Tail(stack), x), e("ok"))}

(***************************************************************************)
(* Maps and structs.                                                       *)
(***************************************************************************)
\* deserialize_map up to the call of visit_map: the leading 'd'.
deserialize_map ==
    LET e(out) == Ev("deserialize_map", index, Top.ty, out, <<>>) IN
    IF AtEof(index) THEN {Abort(index, Error_eof(index), e("err"))}
    ELSE IF ByteAt(index) = Ch_d
        THEN {Step(index + 1, <<F_visit_map(Top.ty)>> \o Tail(stack), e("call"))}
    ELSE {Abort(index + 1, r, e("err")) : r \in error("ExpectedDict", index + 1)}

\* The type a key is read as: a struct reads an identifier, which
\* deserialize_identifier reads as a string.
KeyType(t) == IF t.t = "struct" THEN TStr ELSE t.key

\* The type the value of key k is read as: the field's, or IgnoredAny for a
\* name that is no field.
ValueType(t, k) ==
    IF t.t = "struct"
    THEN IF FieldIndex(t, k.b) = 0 THEN TIgnored ELSE t.tys[FieldIndex(t, k.b)]
    ELSE t.val

\* The fields a derived visitor cannot default when the dict has ended: the
\* unread fields whose type is not an option.
MissingFields(f) ==
    {i \in 1..Len(f.acc) : f.acc[i] = <<>> /\ f.ty.tys[i].t # "option"}

\* The value the visitor returns when it is told there are no more keys.
MapResult(f) ==
    IF f.ty.t = "struct"
    THEN StructVal([i \in 1..Len(f.acc) |->
                        IF f.acc[i] = <<>> THEN NoneVal ELSE f.acc[i][1]])
    ELSE IF f.ty.key.t = "ignored" THEN IgnoredVal
    ELSE MapVal(f.acc)

\* StartsNonStringValue without the integer.
StartsNonStringValue_NoInt(c) == c = Ch_l \/ c = Ch_d

\* The arm of MapAccess::next_key_seed for a byte that starts a value that
\* is no string.
StartsNonStringValue(c) == c = Ch_l \/ c = Ch_d \/ c = Ch_i

\* MapAccess::next_key_seed, and what the visitor does with None.
next_key_seed ==
    LET f == Top
        e(out) == Ev("next_key_seed", index, f.ty, out, <<>>)
    IN  IF AtEof(index) THEN {Abort(index, Error_eof(index), e("err"))}
        ELSE LET c == ByteAt(index) IN
             IF c = Ch_e THEN
                IF f.ty.t = "struct" /\ MissingFields(f) # {}
                THEN {Abort(index, Error_custom("missing field"), e("none"))}
                ELSE {Step(index, <<[f EXCEPT !.done = TRUE]>> \o Tail(stack), e("none"))}
             ELSE IF IsDigit(c)
                THEN {Step(index, <<F_deserialize(KeyType(f.ty))>> \o stack, e("some"))}
             ELSE IF StartsNonStringValue(c)
                THEN {Abort(index, r, e("err")) : r \in error("KeyMustBeAString", index)}
             ELSE {Abort(index, error_with_index("ExpectedEnd", index), e("err"))}

\* MapAccess::next_value_seed, after the visitor has looked at the key: a
\* derived visitor refuses a field it has already read.
next_value_seed ==
    LET f == Top
        k == f.key[1]
        e(out) == Ev("next_value_seed", index, f.ty, out, <<>>)
    IN  IF f.ty.t = "struct" /\ FieldIndex(f.ty, k.b) # 0
           /\ f.acc[FieldIndex(f.ty, k.b)] # <<>>
        THEN {Abort(index, Error_custom("duplicate field"), e("err"))}
        ELSE {Step(index, <<F_deserialize(ValueType(f.ty, k))>> \o stack, e("call"))}

\* deserialize_map from the return of visit_map on: the closing 'e'.
deserialize_map_close ==
    LET f == Top
        x == MapResult(f)
        e(out) == Ev("deserialize_map_close", index, f.ty, out, <<x>>)
    IN  IF AtEof(index) THEN {Abort(index, Error_eof(index), e("err"))}
        ELSE IF ByteAt(index) # Ch_e
            THEN {Abort(index + 1, r, e("err")) : r \in error("ExpectedEnd", index + 1)}
        ELSE {Step(index + 1, Deliver(Tail(stack), x), e("ok"))}

(***************************************************************************)
(* Enums.                                                                  *)
(***************************************************************************)
\* deserialize_enum up to the call of visit_enum: a digit starts the string
\* form (parse_bytes, then from_utf8), 'd' the dict form (the derived
\* visitor first asks variant_seed for the name, an identifier).
deserialize_enum ==
    LET e(out) == Ev("deserialize_enum", index, Top.ty, out, <<>>) IN
    IF AtEof(index) THEN {Abort(index, Error_eof(index), e("err"))}
    ELSE LET c == ByteAt(index) IN
         IF IsDigit(c)
            THEN {Step(index,
                       <<F_parse_integer(TUsize, TRUE, index), F_parse_bytes(TStr, index),
                         F_visit_enum(Top.ty, "str")>> \o Tail(stack),
                       e("str"))}
         ELSE IF c = Ch_d
            THEN {Step(index + 1,
                       <<F_deserialize(TStr), F_visit_enum(Top.ty, "dict")>> \o Tail(stack),
                       e("dict"))}
         ELSE {Abort(index, r, e("err")) : r \in error("ExpectedEnum", index)}

\* The derived visit_enum once the name has been read: an unknown name is
\* refused; the string form holds unit variants only; in the dict form
\* unit_variant is an error and the other variants read their payload
\* (newtype_variant_seed, tuple_variant, struct_variant).
visit_enum ==
    LET f == Top
        name == f.key[1].b
        i == VariantIndex(f.ty, name)
        e(out) == Ev("visit_enum", index, f.ty, out, f.key)
    IN  IF i = 0 THEN {Abort(index, Error_custom("unknown variant"), e("err"))}
        ELSE IF f.form = "str"
            THEN IF f.ty.kinds[i] = "unit"
                 THEN {Step(index, Deliver(Tail(stack), EnumVal(name, UnitVal)), e("ok"))}
                 ELSE {Abort(index, Error_custom("invalid type"), e("err"))}
        ELSE IF f.ty.kinds[i] = "unit"
            THEN {Abort(index, r, e("err")) : r \in error("ExpectedString", index)}
        ELSE {Step(index, <<F_deserialize(f.ty.tys[i])>> \o stack, e("call"))}

\* ClosesEnum that takes a digit too.
ClosesEnum_OrDigit(c) == c = Ch_e \/ IsDigit(c)

\* The byte deserialize_enum asks for after visit_enum has returned.
ClosesEnum(c) == c = Ch_e

\* deserialize_enum from the return of visit_enum on (dict form): the
\* closing 'e'.
deserialize_enum_close ==
    LET f == Top
        x == EnumVal(f.key[1].b, f.acc[1])
        e(out) == Ev("deserialize_enum_close", index, f.ty, out, <<x>>)
    IN  IF AtEof(index) THEN {Abort(index, Error_eof(index), e("err"))}
        ELSE IF ~ClosesEnum(ByteAt(index))
            THEN {Abort(index + 1, r, e("err")) : r \in error("ExpectedEnd", index + 1)}
        ELSE {Step(index + 1, Deliver(Tail(stack), x), e("ok"))}

(***************************************************************************)
(* The encoder on a sink that can fail (to_writer).  Every write goes      *)
(* through write_all, whose error `?` or the final expression hands to the *)
(* caller, up to to_writer.                                                *)
(***************************************************************************)
\* Bound: the largest number of bytes a sink accepts before it fails.
MaxSink == 5

\* The buffers serialize_i64 hands to write_all, in order.
serialize_i64_writes(x) == <<<<Ch_i>>, ItoaI64(x), <<Ch_e>>>>

serialize_u64_writes(x) == <<<<Ch_i>>, ItoaU64(x.mag), <<Ch_e>>>>

\* serialize_str and serialize_bytes: the length, ':', the bytes.
serialize_str_writes(b) == <<ItoaU64(U64OfSmall(Len(b))), <<Ch_colon>>, b>>

RECURSIVE Writes(_, _)
RECURSIVE VariantWrites(_, _, _)
RECURSIVE ElementsWrites(_, _, _)
RECURSIVE EntriesWrites(_, _, _)
RECURSIVE FieldsWrites(_, _, _)

ElementsWrites(tys, e, i) ==
    IF i > Len(e) THEN <<>>
    ELSE Writes(tys[i], e[i]) \o ElementsWrites(tys, e, i + 1)

EntriesWrites(t, e, i) ==
    IF i > Len(e) THEN <<>>
    ELSE Writes(t.key, BytesVal(e[i][1])) \o Writes(t.val, e[i][2])
         \o EntriesWrites(t, e, i + 1)

FieldsWrites(t, e, i) ==
    IF i > Len(e) THEN <<>>
    ELSE serialize_str_writes(t.names[i]) \o Writes(t.tys[i], e[i])
         \o FieldsWrites(t, e, i + 1)

\* The buffers value.serialize(&mut serializer) hands to write_all, in
\* order, for a value x of type t.
Writes(t, x) ==
    CASE t.t = "int" -> IF t.signed THEN serialize_i64_writes(x)
                        ELSE serialize_u64_writes(x)
      [] t.t = "bool" ->
            serialize_i64_writes(IntVal(FALSE, IF x.bit THEN U64OfSmall(1) ELSE U64Zero))
      [] t.t \in {"str", "bytes"} -> serialize_str_writes(x.b)
      [] t.t \in {"unit", "unit_struct"} -> <<>>
      [] t.t = "option" -> IF x.v = "none" THEN <<>> ELSE Writes(t.inner, x.x)
      [] t.t = "seq" ->
            <<<<Ch_l>>>> \o ElementsWrites([i \in 1..Len(x.e) |-> t.elem], x.e, 1)
            \o <<<<Ch_e>>>>
      [] t.t = "tuple" ->
            <<<<Ch_l>>>> \o ElementsWrites(t.elems, x.e, 1) \o <<<<Ch_e>>>>
      [] t.t = "map" -> <<<<Ch_d>>>> \o EntriesWrites(t, x.m, 1) \o <<<<Ch_e>>>>
      [] t.t = "struct" -> <<<<Ch_d>>>> \o FieldsWrites(t, x.f, 1) \o <<<<Ch_e>>>>
      [] t.t = "enum" -> VariantWrites(t, VariantIndex(t, x.name), x.x)

VariantWrites(t, i, x) ==
    LET kind == t.kinds[i]
        variant == serialize_str_writes(t.names[i])
    IN  CASE kind = "unit" -> variant
          [] kind = "newtype" ->
                <<<<Ch_d>>>> \o variant \o Writes(t.tys[i], x) \o <<<<Ch_e>>>>
          [] kind = "tuple" ->
                <<<<Ch_d>>>> \o variant \o <<<<Ch_l>>>>
                \o ElementsWrites(t.tys[i].elems, x.e, 1) \o <<<<Ch_e, Ch_e>>>>
          [] kind = "struct" ->
                <<<<Ch_d>>>> \o variant \o <<<<Ch_d>>>>
                \o FieldsWrites(t.tys[i], x.f, 1) \o <<<<Ch_e, Ch_e>>>>

\* to_writer after a write_all that failed with w in the sink, had the
\* error been dropped: the encoder goes on to its next write, which the
\* sink accepts.
Failed_Swallowed(w, f, e) ==
    [writer |-> w, stack |-> <<[f EXCEPT !.calls = @ + 1, !.room = MaxSink]>>,
     result |-> Running, ev |-> e]

\* to_writer after a write_all that failed with w in the sink: every caller
\* returns the error, which From<io::Error> has made an Error::io.
Failed(w, f, e) == [writer |-> w, stack |-> <<>>, result |-> Error_io, ev |-> e]

\* to_writer up to the return of its next write_all, or to its own return
\* when nothing is written.  write_all hands the sink what is left of buf
\* until nothing is left (an empty buf never reaches the sink); the sink
\* accepts f.room bytes and then fails.
write_all ==
    LET f == Top
        w == Writes(f.ty, f.value)
        n == f.calls + 1
        e(out) == Ev("write_all", Len(writer), f.ty, out, <<>>)
    IN  IF w = <<>>
        THEN {[writer |-> writer, stack |-> <<>>, result |-> OkRes(UnitVal),
               ev |-> Ev("to_writer", Len(writer), f.ty, "ok", <<>>)]}
        ELSE LET buf == w[n] IN
             IF Len(buf) > f.room
             THEN {Failed(writer \o SubSeq(buf, 1, f.room), f, e("err"))}
             ELSE IF n = Len(w)
                THEN {[writer |-> writer \o buf, stack |-> <<>>,
                       result |-> OkRes(UnitVal), ev |-> e("ok")]}
             ELSE {[writer |-> writer \o buf,
                    stack |-> <<[f EXCEPT !.calls = n, !.room = @ - Len(buf)]>>,
                    result |-> Running, ev |-> e("ok")]}

(***************************************************************************)
(* The calls of from_bytes that are checked: a type and an input.          *)
(***************************************************************************)
\* Bounds: the length of the inputs enumerated byte by byte, the length of
\* the integer tokens and length prefixes enumerated byte by byte, and the
\* number of elements of the lists and maps that are encoded.
MaxLen == 3
MaxTokenLen == 4
MaxElems == 2

Ch_a == 97
Ch_b == 98

Alphabet == {Ch_i, Ch_e, Ch_l, Ch_d, Ch_colon, Ch_minus, Ch_0, Ch_1, Ch_a}
TokenAlphabet == {Ch_minus, Ch_0, Ch_1, Ch_e, Ch_colon, Ch_a}

Case(t, w, o) == [ty |-> t, input |-> w, orig |-> o]

I8 == TInt(TRUE, 8)
I16 == TInt(TRUE, 16)
I32 == TInt(TRUE, 32)
I64 == TInt(TRUE, 64)
U8 == TInt(FALSE, 8)
U16 == TInt(FALSE, 16)
U32 == TInt(FALSE, 32)
U64 == TInt(FALSE, 64)
IntTypes == {I8, I16, I32, I64, U8, U16, U32, U64}

Small(k) == IntVal(FALSE, U64OfSmall(k))
Minus(k) == IntVal(TRUE, U64OfSmall(k))

\* w - 1 for a word w > 0.
U64Pred(w) == U64Add(w, U64Max).lo

\* Values of an integer type: zero, one, both ends of its range and their
\* neighbours.
IntSamples(t) ==
    IF t.signed
    THEN {Small(0), Small(1), Small(42), Minus(1), Minus(42),
          IntVal(FALSE, U64Pred(PowHalf(t.bits))),
          IntVal(TRUE, PowHalf(t.bits)),
          IntVal(TRUE, U64Pred(PowHalf(t.bits)))}
    ELSE {Small(0), Small(1), Small(42),
          IntVal(FALSE, MaxUnsigned(t.bits)),
          IntVal(FALSE, U64Pred(MaxUnsigned(t.bits))),
          IntVal(FALSE, PowHalf(t.bits))}

\* Magnitudes at the ends of the ranges of the integer types, and past the
\* end of the accumulator (as decimal text).
Pow64Text == <<49, 56, 52, 52, 54, 55, 52, 52, 48, 55, 51, 55, 48, 57, 53, 53, 49, 54, 49, 54>>
BoundaryMagnitudes ==
    {ItoaU64(w) : w \in UNION {{U64Pred(PowHalf(b)), PowHalf(b),
                                U64Add(PowHalf(b), U64OfSmall(1)).lo,
                                MaxUnsigned(b),
                                U64Add(MaxUnsigned(b), U64OfSmall(1)).lo}
                               : b \in {8, 16, 32, 64}}}
    \cup {Pow64Text, Append(Pow64Text, Ch_0), [Pow64Text EXCEPT ![20] = Ch_9]}

\* Number tokens and length prefixes of those magnitudes.
BoundaryCases ==
    {Case(t, <<Ch_i>> \o sign \o m \o <<Ch_e>>, <<>>)
            : t \in IntTypes, sign \in {<<>>, <<Ch_minus>>}, m \in BoundaryMagnitudes}
    \cup {Case(t, m \o <<Ch_colon>> \o tail, <<>>)
            : t \in {TStr, TBytes}, m \in BoundaryMagnitudes,
              tail \in {<<>>, <<Ch_a>>}}

\* An enum with a variant of each kind: a(u16), b, ab(u16, String),
\* ba { a: i64 }.
EnumT ==
    TEnum(<<<<Ch_a>>, <<Ch_b>>, <<Ch_a, Ch_b>>, <<Ch_b, Ch_a>>>>,
          <<"newtype", "unit", "tuple", "struct">>,
          <<U16, TUnit, TTuple(<<U16, TStr>>), TStruct(<<<<Ch_a>>>>, <<I64>>)>>)

PlainTypes ==
    {I8, U64, TBool, TStr, TUnit, TOption(I64), TSeq(I64), TTuple(<<I64, TStr>>),
     TMap(TStr, I64), TStruct(<<<<Ch_a>>, <<Ch_b>>>>, <<I64, TOption(I64)>>),
     TIgnored, TUnitStruct, TSeq(TUnit), EnumT}

\* Values of the type t to encode, fewer of them inside a container (d is
\* the nesting depth).
StrSamples(d) ==
    IF d = 0 THEN {<<>>, <<Ch_a>>, <<195, 169>>, <<Ch_i, Ch_1, Ch_e>>,
                   <<72, 101, 108, 108, 111, 32, 87, 111, 114, 108, 100, 33>>}
    ELSE IF d = 1 THEN {<<>>, <<Ch_a, Ch_b>>}
    ELSE {<<Ch_a, Ch_b>>}

\* The most elements a list or map at nesting depth d is given.
ElemsAt(d) == IF d = 0 THEN MaxElems ELSE IF d = 1 THEN 2 ELSE 1

KeySamples == {<<>>, <<Ch_a>>, <<Ch_b>>}

SeqsUpTo(S, n) == UNION {[1..k -> S] : k \in 0..n}

IsInjective(s) == \A i, j \in 1..Len(s) : s[i] = s[j] => i = j

RECURSIVE Vals(_, _)
RECURSIVE Products(_, _, _)

\* The sequences of one value per type of tys, from position i on.
Products(tys, i, d) ==
    IF i > Len(tys) THEN {<<>>}
    ELSE {<<x>> \o rest : x \in Vals(tys[i], d), rest \in Products(tys, i + 1, d)}

Vals(t, d) ==
    CASE t.t = "int" ->
            IF d = 0 THEN IntSamples(t)
            ELSE IF t.signed THEN {Small(7), Minus(1)} ELSE {Small(7), Small(0)}
      [] t.t = "bool" -> {BoolVal(TRUE), BoolVal(FALSE)}
      [] t.t = "str" -> {BytesVal(b) : b \in StrSamples(d)}
      [] t.t = "bytes" -> {BytesVal(b) : b \in StrSamples(d) \cup {<<255, Ch_0>>}}
      [] t.t = "unit" -> {UnitVal}
      [] t.t = "unit_struct" -> {UnitVal}
      [] t.t = "option" -> {NoneVal} \cup {SomeVal(x) : x \in Vals(t.inner, d + 1)}
      [] t.t = "enum" ->
            UNION {{EnumVal(t.names[i], x) : x \in Vals(t.tys[i], d + 1)}
                     : i \in 1..Len(t.names)}
      [] t.t = "seq" -> {SeqVal(e) : e \in SeqsUpTo(Vals(t.elem, d + 1), ElemsAt(d))}
      [] t.t = "tuple" -> {SeqVal(e) : e \in Products(t.elems, 1, d + 1)}
      [] t.t = "map" ->
            {MapVal([i \in 1..Len(ks) |-> <<ks[i], vs[i]>>])
                : <<ks, vs>> \in
                    {p \in SeqsUpTo(KeySamples, ElemsAt(d))
                             \X SeqsUpTo(Vals(t.val, d + 1), ElemsAt(d))
                        : Len(p[1]) = Len(p[2]) /\ IsInjective(p[1])}}
      [] t.t = "struct" -> {StructVal(f) : f \in Products(t.tys, 1, d + 1)}

StructAB == TStruct(<<<<Ch_a>>, <<Ch_b>>>>, <<I64, TSeq(TStr)>>)
StructNested == TStruct(<<<<Ch_b>>, <<Ch_a, Ch_b>>>>, <<TStruct(<<<<Ch_a>>>>, <<U8>>), TStr>>)
\* struct { a: Option<i64>, b: i64 } and struct { b: i64, a: Option<i64> }
StructOptFirst == TStruct(<<<<Ch_a>>, <<Ch_b>>>>, <<TOption(I64), I64>>)
StructOptLast == TStruct(<<<<Ch_b>>, <<Ch_a>>>>, <<I64, TOption(I64)>>)

RoundTripTypes ==
    IntTypes \cup
    {TBool, TStr, TSeq(I64), TSeq(TStr), TSeq(TSeq(I64)), TTuple(<<I64, TStr>>),
     TMap(TStr, I64), TMap(TStr, TSeq(I64)), TSeq(TMap(TStr, TStr)),
     StructAB, StructNested, TSeq(StructNested),
     TBytes, TUnit, TUnitStruct, TOption(I64), TOption(TStr), TSeq(TUnit),
     TSeq(TOption(I64)), TTuple(<<TOption(I64), I64>>), StructOptFirst, StructOptLast,
     EnumT, TSeq(EnumT), TTuple(<<I8, TStr, TOption(TSeq(TStr))>>)}

\* The calls to_bytes(&x) whose output is then given to from_bytes.
RoundTripCases ==
    {Case(p[1], <<>>, <<p[2]>>) : p \in
        UNION {{<<t, x>> : x \in Vals(t, 0)} : t \in RoundTripTypes}}

\* The encodings of composite values, damaged: cut short, one byte
\* appended, one byte replaced.
DamagedTypes ==
    {TSeq(I64), TTuple(<<I64, TStr>>), TMap(TStr, I64), StructAB, TSeq(TSeq(I64)),
     EnumT}

Damaged(w) ==
    {SubSeq(w, 1, k) : k \in 0..Len(w)}
    \cup {Append(w, c) : c \in Alphabet}
    \cup {[w EXCEPT ![i] = c] : i \in 1..Len(w), c \in Alphabet}

DamagedCases ==
    {Case(p[1], p[2], <<>>) : p \in
        UNION {{<<t, w>> : w \in UNION {Damaged(to_bytes(t, x)) : x \in Vals(t, 1)}}
                 : t \in DamagedTypes}}
    \cup {Case(TIgnored, w, <<>>) : w \in
        UNION {Damaged(to_bytes(StructAB, x)) : x \in Vals(StructAB, 1)}}

\* Well-formed values that deserialize_ignored_any is asked to skip, alone
\* and as the value of a key that struct S { a: i64 } does not know: byte
\* strings that are and are not UTF-8, integers in and past the range of
\* i64, lists and dicts.
StructA == TStruct(<<<<Ch_a>>>>, <<I64>>)

SkippedValues ==
    {<<50, 58, Ch_a, Ch_b>>, <<50, 58, 255, 254>>, <<48, 58>>,
     <<Ch_i, Ch_minus, Ch_1, Ch_e>>,
     <<Ch_i>> \o ItoaU64(U64Max) \o <<Ch_e>>,
     <<Ch_l, Ch_i, Ch_1, Ch_e, 49, 58, Ch_a, Ch_e>>,
     <<Ch_l, 49, 58, 255, Ch_e>>,
     <<Ch_d, 49, 58, Ch_a, Ch_i, Ch_1, Ch_e, Ch_e>>,
     <<Ch_d, 49, 58, 255, Ch_l, Ch_e, Ch_e>>}

IgnoredCases ==
    {Case(TIgnored, w, <<>>) : w \in SkippedValues}
    \cup {Case(StructA, <<Ch_d, 49, 58, Ch_a, Ch_i, Ch_1, Ch_e, 49, 58, 120>> \o w \o <<Ch_e>>,
                <<>>) : w \in SkippedValues}

\* The inputs of the tests of src/src/de.rs.
TestCases ==
    {Case(I32, <<105, 52, 50, 101, 97, 98, 99>>, <<>>),
     Case(I64, <<105, 52, 50, 101>>, <<>>),
     Case(I64, <<105, 45, 52, 50, 101>>, <<>>),
     Case(U8, <<105, 48, 101>>, <<>>),
     Case(I32, <<105, 45, 49, 48, 50, 48, 48, 101>>, <<>>),
     Case(I8, <<105, 52, 50, 48, 48, 48, 101>>, <<>>),
     Case(U64, <<105, 45, 49, 101>>, <<>>),
     Case(I64, <<105, 97, 98, 99>>, <<>>),
     Case(I64, <<105, 50, 50, 114>>, <<>>),
     Case(I64, <<105, 45, 48, 97, 122, 101, 114, 116, 121, 101>>, <<>>),
     Case(I64, <<105, 45, 97, 122, 101, 114, 116, 121, 101>>, <<>>),
     Case(TStr, <<49, 49, 58, 104, 101, 108, 108, 111, 32, 119, 111, 114, 108, 100>>, <<>>),
     Case(TStr, <<48, 58>>, <<>>),
     Case(TStr, <<53, 58, 98, 108, 97, 98, 108, 97>>, <<>>),
     Case(TStr, <<53, 58, 98, 108, 97>>, <<>>),
     Case(TStr, <<51, 97, 58, 98, 108, 97>>, <<>>),
     Case(TStr, <<53, 53, 98, 108, 97>>, <<>>),
     Case(TStr, <<48, 53, 58, 98, 108, 97, 98, 108>>, <<>>),
     Case(TStr, <<45, 54, 58, 98, 108, 97, 98, 108, 97>>, <<>>),
     Case(TStr, <<98, 108, 97, 98, 108, 97>>, <<>>),
     Case(TOption(I64), <<105, 50, 101>>, <<>>),
     Case(TUnit, <<97, 97>>, <<>>),
     Case(TSeq(I32), <<108, 105, 49, 101, 105, 50, 101, 105, 51, 101, 101>>, <<>>),
     Case(TSeq(TStr), <<108, 49, 58, 97, 50, 58, 97, 98, 51, 58, 97, 98, 99, 101>>, <<>>),
     Case(TTuple(<<I32, TStr, U32>>), <<108, 105, 45, 49, 101, 52, 58, 116, 101, 115, 116, 105, 49, 101, 101>>, <<>>),
     Case(TSeq(I32), <<108, 105, 49, 101, 105, 50, 101, 97>>, <<>>),
     Case(TTuple(<<I32, TStr>>), <<108, 105, 50, 101, 53, 58, 104, 101, 108, 108, 111, 105, 51, 101, 101>>, <<>>),
     Case(TSeq(U32), <<105, 51, 101, 105, 50, 101, 101>>, <<>>),
     Case(TTuple(<<U16, U16>>), <<108, 101>>, <<>>),
     Case(TSeq(I32), <<108, 105, 50, 50, 101, 52, 58, 116, 101, 115, 116, 101>>, <<>>),
     Case(TTuple(<<U16, TStr>>), <<108, 105, 50, 49, 101, 52, 58, 116, 101, 115, 116, 101>>, <<>>),
     Case(TMap(TStr, I32), <<100, 53, 58, 102, 105, 114, 115, 116, 105, 49, 101, 54, 58, 115, 101, 99, 111, 110, 100, 105, 50, 101, 101>>, <<>>),
     Case(TStruct(<<<<Ch_a>>, <<Ch_b>>, <<99>>>>, <<TOption(I64), TSeq(TStr), U32>>), <<100, 49, 58, 99, 105, 52, 50, 101, 49, 58, 98, 108, 53, 58, 104, 101, 108, 108, 111, 53, 58, 119, 111, 114, 108, 100, 101, 101>>, <<>>),
     Case(TUnitStruct, <<97, 97>>, <<>>),
     Case(TEnum(<<<<66>>>>, <<"unit">>, <<TUnit>>), <<49, 58, 66>>, <<>>),
     Case(TEnum(<<<<66>>>>, <<"unit">>, <<TUnit>>), <<49, 58, 65>>, <<>>),
     Case(TEnum(<<<<66>>>>, <<"unit">>, <<TUnit>>), <<50, 58, 66>>, <<>>),
     Case(TEnum(<<<<65>>>>, <<"newtype">>, <<U16>>), <<100, 49, 58, 65, 105, 54, 57, 101, 101>>, <<>>),
     Case(TEnum(<<<<65>>>>, <<"tuple">>, <<TTuple(<<U16, TStr>>)>>), <<100, 49, 58, 65, 108, 105, 50, 48, 101, 52, 58, 111, 107, 111, 107, 101, 101>>, <<>>),
     Case(TEnum(<<<<65>>>>, <<"struct">>, <<StructAB>>), <<100, 49, 58, 65, 100, 49, 58, 97, 105, 49, 50, 51, 52, 53, 101, 49, 58, 98, 108, 53, 58, 104, 101, 108, 108, 111, 53, 58, 119, 111, 114, 108, 100, 101, 101, 101>>, <<>>)}

\* Enums in the dict form with no pair, with one, with a second one, with
\* a unit variant; and the string form of each kind of variant.
EnumCases ==
    {Case(EnumT, w, <<>>) : w \in
        {<<100, 101>>,
         <<100, 49, 58, 97, 105, 49, 101, 101>>,
         <<100, 49, 58, 97, 105, 49, 101, 49, 58, 97, 105, 50, 101, 101>>,
         <<100, 49, 58, 97, 105, 49, 101, 105, 50, 101, 101>>,
         <<100, 49, 58, 98, 101>>,
         <<100, 49, 58, 98, 48, 58, 101>>,
         <<100, 50, 58, 97, 98, 108, 105, 49, 101, 48, 58, 101, 101>>,
         <<100, 50, 58, 97, 98, 108, 105, 49, 101, 48, 58, 101, 49, 58, 97, 105, 49, 101, 101>>,
         <<100, 50, 58, 98, 97, 100, 49, 58, 97, 105, 45, 49, 101, 101, 101>>,
         <<49, 58, 97>>, <<49, 58, 98>>, <<50, 58, 98>>, <<50, 58, 97, 98>>, <<49, 58, 255>>}}
    \cup {Case(TSeq(t), w, <<>>) : t \in {TUnit, TUnitStruct},
            w \in {<<108, 101>>, <<108, 105, 49, 101, 101>>, <<108, 108, 101, 101>>,
                   <<108, 49, 58, 97, 101>>, <<108, 100, 101, 101>>, <<108, 97>>}}

\* Number tokens with a zero in front, for every integer type, alone and
\* as the element of a list.
ZeroTokens ==
        {<<105, 45, 48, 101>>,
         <<105, 48, 48, 50, 50, 101>>,
         <<105, 45, 48, 50, 50, 101>>,
         <<105, 48, 48, 101>>,
         <<105, 45, 48, 48, 101>>,
         <<105, 48, 49, 101>>,
         <<105, 45, 48, 49, 101>>,
         <<105, 48, 101>>,
         <<105, 45, 48>>}

ZeroCases ==
    {Case(t, w, <<>>) : t \in IntTypes, w \in ZeroTokens}
    \cup {Case(TSeq(t), <<Ch_l>> \o w \o <<Ch_e>>, <<>>) : t \in IntTypes, w \in ZeroTokens}

(***************************************************************************)
(* The state machine.                                                      *)
(***************************************************************************)
\* from_bytes called with the input and for the type of the case c.
from_bytes(c) ==
    /\ input = c.input
    /\ ty = c.ty
    /\ orig = c.orig
    /\ index = 0
    /\ stack = <<F_deserialize(c.ty), F_from_bytes>>
    /\ result = Running
    /\ ev = Ev("from_bytes", 0, c.ty, "call", <<>>)
    /\ writer = <<>>

\* to_bytes about to be called on the value of the case c, whose output
\* from_bytes is then called on.
to_bytes_then_from_bytes(c) ==
    /\ input = <<>>
    /\ ty = c.ty
    /\ orig = c.orig
    /\ index = 0
    /\ stack = <<F_to_bytes>>
    /\ result = Running
    /\ ev = Ev("main", 0, c.ty, "call", <<>>)
    /\ writer = <<>>

\* to_writer about to be called on the value of the case c with a sink that
\* has room for c.room bytes; from_bytes is not called.
to_writer(c) ==
    /\ input = <<>>
    /\ ty = NoTy
    /\ orig = <<>>
    /\ index = 0
    /\ stack = <<F_to_writer(c.ty, c.orig[1], c.room)>>
    /\ result = Running
    /\ ev = Ev("main", 0, c.ty, "call", <<>>)
    /\ writer = <<>>

Init ==
    \/ \E t \in {I8, U8, I64, U64}, k \in 0..MaxTokenLen :
          \E b \in [1..k -> TokenAlphabet] : from_bytes(Case(t, <<Ch_i>> \o b, <<>>))
    \/ \E t \in {TStr, TBytes}, k \in 0..MaxTokenLen, tail \in {<<>>, <<Ch_a, Ch_b>>} :
          \E b \in [1..k -> TokenAlphabet] : from_bytes(Case(t, b \o tail, <<>>))
    \/ \E t \in PlainTypes, k \in 0..MaxLen :
          \E w \in [1..k -> Alphabet] : from_bytes(Case(t, w, <<>>))
    \/ \E c \in BoundaryCases : from_bytes(c)
    \/ \E c \in RoundTripCases : to_bytes_then_from_bytes(c)
    \/ \E c \in RoundTripCases, room \in 0..MaxSink :
          to_writer([ty |-> c.ty, orig |-> c.orig, room |-> room])
    \/ \E c \in EnumCases : from_bytes(c)
    \/ \E c \in DamagedCases : from_bytes(c)
    \/ \E c \in TestCases : from_bytes(c)
    \/ \E c \in ZeroCases : from_bytes(c)
    \/ \E c \in IgnoredCases : from_bytes(c)

\* The decoder becomes m; it never writes the input or the request.
Becomes(m) ==
    /\ index' = m.index
    /\ stack' = m.stack
    /\ result' = m.result
    /\ ev' = m.ev
    /\ UNCHANGED <<input, ty, orig, writer>>

\* to_bytes(&x), and the call of from_bytes on the bytes it returned.
DoToBytes ==
    /\ Active("to_bytes")
    /\ input' = to_bytes(ty, orig[1])
    /\ stack' = <<F_deserialize(ty), F_from_bytes>>
    /\ ev' = Ev("to_bytes", 0, ty, "ok", <<>>)
    /\ UNCHANGED <<ty, orig, index, result, writer>>

\* to_writer up to the return of its next write_all.
DoWriteAll ==
    /\ Active("to_writer")
    /\ \E m \in write_all :
          /\ writer' = m.writer
          /\ stack' = m.stack
          /\ result' = m.result
          /\ ev' = m.ev
    /\ UNCHANGED <<input, ty, orig, index>>

DoParseNumber == Calling("int") /\ \E m \in parse_number : Becomes(m)
DoParseInteger == Active("parse_integer") /\ \E m \in parse_integer : Becomes(m)
DoDeserializeBool == Calling("bool") /\ \E m \in deserialize_bool : Becomes(m)
DoDeserializeStr == Calling("str") /\ \E m \in deserialize_str : Becomes(m)
DoDeserializeBytes == Calling("bytes") /\ \E m \in deserialize_bytes : Becomes(m)
DoParseBytes ==
    Active("parse_bytes") /\ Top.acc # <<>> /\ \E m \in parse_bytes : Becomes(m)
DoDeserializeOption == Calling("option") /\ \E m \in deserialize_option : Becomes(m)
DoDeserializeUnit ==
    (Calling("unit") \/ Calling("unit_struct")) /\ \E m \in deserialize_unit : Becomes(m)
DoDeserializeAny == Calling("ignored") /\ \E m \in deserialize_any : Becomes(m)
DoDeserializeSeq ==
    (Calling("seq") \/ Calling("tuple")) /\ \E m \in deserialize_seq : Becomes(m)
DoNextElementSeed ==
    Active("visit_seq") /\ SeqWantsMore(Top) /\ \E m \in next_element_seed : Becomes(m)
DoDeserializeSeqClose ==
    Active("visit_seq") /\ ~SeqWantsMore(Top)
    /\ \E m \in deserialize_seq_close : Becomes(m)
DoDeserializeMap ==
    (Calling("map") \/ Calling("struct")) /\ \E m \in deserialize_map : Becomes(m)
DoNextKeySeed ==
    Active("visit_map") /\ ~Top.done /\ Top.key = <<>>
    /\ \E m \in next_key_seed : Becomes(m)
DoNextValueSeed ==
    Active("visit_map") /\ ~Top.done /\ Top.key # <<>>
    /\ \E m \in next_value_seed : Becomes(m)
DoDeserializeMapClose ==
    Active("visit_map") /\ Top.done /\ \E m \in deserialize_map_close : Becomes(m)
DoDeserializeEnum == Calling("enum") /\ \E m \in deserialize_enum : Becomes(m)
DoVisitEnum ==
    Active("visit_enum") /\ Top.key # <<>> /\ Top.acc = <<>>
    /\ \E m \in visit_enum : Becomes(m)
DoDeserializeEnumClose ==
    Active("visit_enum") /\ Top.acc # <<>> /\ \E m \in deserialize_enum_close : Becomes(m)
DoEnd == Active("from_bytes") /\ Top.acc # <<>> /\ \E m \in end : Becomes(m)

Next ==
    \/ DoParseNumber
    \/ DoParseInteger
    \/ DoDeserializeBool
    \/ DoDeserializeStr
    \/ DoDeserializeBytes
    \/ DoParseBytes
    \/ DoDeserializeOption
    \/ DoDeserializeUnit
    \/ DoDeserializeAny
    \/ DoDeserializeSeq
    \/ DoNextElementSeed
    \/ DoDeserializeSeqClose
    \/ DoDeserializeMap
    \/ DoNextKeySeed
    \/ DoNextValueSeed
    \/ DoDeserializeMapClose
    \/ DoDeserializeEnum
    \/ DoVisitEnum
    \/ DoDeserializeEnumClose
    \/ DoToBytes
    \/ DoWriteAll
    \/ DoEnd

Spec == Init /\ [][Next]_vars

\* from_bytes runs on one thread that nothing suspends: a step that can be
\* taken is taken.
FairSpec == Spec /\ WF_vars(Next)


(***************************************************************************)
(* The grammar of the wire format, for the properties below: written from  *)
(* the grammar, not from the parser.                                       *)
(***************************************************************************)
GrammarDigit(c) == c \in 48..57

\* '0', or a digit that is not '0' and then digits.
GrammarNat(s) ==
    /\ Len(s) >= 1
    /\ \A i \in 1..Len(s) : GrammarDigit(s[i])
    /\ s[1] = 48 => Len(s) = 1

\* The text of a number (before its 'e') or of a length (before its ':').
GrammarBody(s, pstr) ==
    IF GrammarNat(s) THEN TRUE
    ELSE /\ ~pstr
         /\ Len(s) >= 2
         /\ s[1] = 45
         /\ s[2] # 48
         /\ GrammarNat(Tail(s))

\* The number the decimal digits s write, modulo 2^64, and whether it is
\* 2^64 or more.
RECURSIVE TextMagnitude(_)
TextMagnitude(s) ==
    IF s = <<>> THEN [mag |-> U64Zero, over |-> FALSE]
    ELSE LET r == TextMagnitude(SubSeq(s, 1, Len(s) - 1))
             m == MulTenAdd(r.mag, s[Len(s)] - 48)
         IN  [mag |-> m.lo, over |-> r.over \/ m.carry # 0]

IsPrefix(s, t) == Len(s) <= Len(t) /\ s = SubSeq(t, 1, Len(s))

\* The byte at cursor k is c.
Has(k, c) == k < Len(input) /\ input[k + 1] = c

(***************************************************************************)
(* Properties.                                                             *)
(***************************************************************************)

\* C1: for every signed and unsigned 64-bit value v (0, -2^63 and 2^64-1
\* among them), from_bytes of to_bytes(v) at the same width comes to an end,
\* returns exactly v, and has consumed the whole buffer.
C1_IntegerRoundTrip ==
    (orig # <<>> /\ ty \in {I64, U64}) =>
        /\ result = Running => ENABLED Next
        /\ result # Running => result = OkRes(orig[1]) /\ index = Len(input)

C1_Witness ==
    /\ ty = I64
    /\ orig = <<IntVal(TRUE, PowHalf(64))>>
    /\ result = OkRes(orig[1])
    /\ index = Len(input)

\* The type t is built from integers, strings, lists, tuples, maps and
\* structs only.
RECURSIVE OnlyIntegersStringsListsMaps(_)
OnlyIntegersStringsListsMaps(t) ==
    CASE t.t \in {"int", "str"} -> TRUE
      [] t.t = "seq" -> OnlyIntegersStringsListsMaps(t.elem)
      [] t.t = "tuple" ->
            \A i \in 1..Len(t.elems) : OnlyIntegersStringsListsMaps(t.elems[i])
      [] t.t = "map" ->
            OnlyIntegersStringsListsMaps(t.key) /\ OnlyIntegersStringsListsMaps(t.val)
      [] t.t = "struct" ->
            \A i \in 1..Len(t.tys) : OnlyIntegersStringsListsMaps(t.tys[i])
      [] OTHER -> FALSE

\* C2: for every value built from integers, UTF-8 strings, lists, tuples
\* and string-keyed maps and structs, from_bytes of to_bytes(v) comes to an
\* end and returns a value equal to v (elements and entries in the same
\* order), the whole buffer consumed.
C2_CompositeRoundTrip ==
    (orig # <<>> /\ ty.t \in {"str", "seq", "tuple", "map", "struct"}
     /\ OnlyIntegersStringsListsMaps(ty)) =>
        /\ result = Running => ENABLED Next
        /\ result # Running => result = OkRes(orig[1]) /\ index = Len(input)

C2_Witness ==
    /\ ty = TSeq(StructNested)
    /\ orig # <<>>
    /\ Len(orig[1].e) = 2
    /\ result = OkRes(orig[1])

\* C3: deserialize_bool returns true when the next three bytes are "i1e",
\* false when they are "i0e", ExpectedBoolean for another integer token such
\* as "i2e" or "i-e"; and from_bytes(to_bytes(b)) = b for both booleans.
C3_BooleanDecoding ==
    /\ (ev.fn = "parse_bool" /\ ev.at + 3 <= Len(input)) =>
          LET three == SubSeq(input, ev.at + 1, ev.at + 3) IN
          /\ three = <<Ch_i, Ch_1, Ch_e>> => ev.ret = <<BoolVal(TRUE)>>
          /\ three = <<Ch_i, Ch_0, Ch_e>> => ev.ret = <<BoolVal(FALSE)>>
          /\ (three[1] = Ch_i /\ three[3] = Ch_e /\ three[2] \notin {Ch_0, Ch_1}) =>
                result.st = "err" /\ result.kind = "ExpectedBoolean"
    /\ (orig # <<>> /\ ty = TBool /\ result # Running) => result = OkRes(orig[1])

\* C4: from_bytes returns Ok only with the cursor at the end of the input;
\* when the value is complete and a byte follows it, from_bytes returns
\* TrailingCharacters at the cursor, which is just past the value.
C4_WholeBuffer ==
    /\ (ty # NoTy /\ result.st = "ok") => index = Len(input) /\ ev.fn = "end"
    /\ (ev.fn = "end" /\ ev.at < Len(input)) =>
          result = Error_syntax("TrailingCharacters", ev.at) /\ index = ev.at

C4_Witness ==
    /\ ty = I32
    /\ input = <<105, 52, 50, 101, 97, 98, 99>>
    /\ result = Error_syntax("TrailingCharacters", 4)

\* C5: when parse_integer returns Ok, the bytes it consumed are a canonical
\* text and its terminator: for a number '0', or an optional '-' and a
\* digit that is not '0' and then digits, and 'e'; for a length the same
\* without the '-', and ':'.
C5_CanonicalAcceptance ==
    (ev.fn = "parse_integer" /\ ev.out = "ok") =>
        LET text == SubSeq(input, ev.start + 1, index) IN
        /\ Len(text) >= 2
        /\ text[Len(text)] = (IF ev.pstr THEN Ch_colon ELSE Ch_e)
        /\ GrammarBody(SubSeq(text, 1, Len(text) - 1), ev.pstr)

C5_Witness ==
    /\ ev.fn = "parse_integer"
    /\ ev.out = "ok"
    /\ ~ev.pstr
    /\ ev.ret = <<Minus(42)>>

\* C6: for every integer type, "-0" and then the terminator of a number
\* token is MinusZero at the index of the token's 'i'; a '0' in front (after
\* an optional '-') and then a digit is LeadingZero at the index of that
\* '0'.
C6_ZeroDiagnostics ==
    ev.fn = "parse_integer" =>
        LET s == ev.start
            Digit(k) == k < Len(input) /\ GrammarDigit(input[k + 1])
        IN  /\ (~ev.pstr /\ Has(s, Ch_minus) /\ Has(s + 1, Ch_0) /\ Has(s + 2, Ch_e)) =>
                  result = Error_syntax("MinusZero", s - 1)
            /\ (Has(s, Ch_0) /\ Digit(s + 1)) =>
                  result = Error_syntax("LeadingZero", s)
            /\ (Has(s, Ch_minus) /\ Has(s + 1, Ch_0) /\ Digit(s + 2)) =>
                  result = Error_syntax("LeadingZero", s + 1)

C6_Witness ==
    /\ ty = TSeq(U16)
    /\ ev.fn = "parse_integer"
    /\ result = Error_syntax("MinusZero", 1)

\* C7: a canonical number token of magnitude below 2^64 whose value is not
\* in the range of the type asked for is IntegerOutOfRange at the index of
\* its 'i'; a token with '-' is never accepted into an unsigned type, and
\* one accepted into a signed type yields minus its magnitude.
C7_RangeCheck ==
    (ev.fn = "parse_integer" /\ ~ev.pstr /\ ev.out # "loop" /\ result.st # "panic") =>
        LET text == SubSeq(input, ev.start + 1, index)
            body == SubSeq(text, 1, Len(text) - 1)
            neg == body[1] = Ch_minus
            m == TextMagnitude(IF neg THEN Tail(body) ELSE body)
            x == IntVal(neg, m.mag)
        IN  (/\ Len(text) >= 2
             /\ text[Len(text)] = Ch_e
             /\ GrammarBody(body, FALSE)
             /\ ~m.over) =>
                /\ ~InRange(ev.ty.signed, ev.ty.bits, x) =>
                      result = Error_syntax("IntegerOutOfRange", ev.start - 1)
                /\ (neg /\ ~ev.ty.signed) => result.st = "err"
                /\ (neg /\ ev.ty.signed /\ ev.out = "ok") => ev.ret = <<x>>

\* C8: for a canonical length n and ':', parse_bytes returns the n bytes
\* after the ':' and moves the cursor by n when n bytes remain; when fewer
\* remain it returns an end-of-input error at the input's length and
\* leaves the cursor just past the ':'.
C8_ByteString ==
    ev.fn = "parse_bytes" =>
        LET m == TextMagnitude(SubSeq(input, ev.start + 1, ev.at - 1))
            enough == ~m.over /\ U64Leq(m.mag, U64OfSmall(Len(input) - ev.at))
        IN  IF enough
            THEN /\ ev.out = "ok"
                 /\ ev.ret = <<BytesVal(SubSeq(input, ev.at + 1, ev.at + m.mag[1]))>>
                 /\ index = ev.at + m.mag[1]
            ELSE /\ result = Error_eof(Len(input))
                 /\ index = ev.at

\* C9: deserialize_seq returns ExpectedList for a first byte that is not
\* 'l'; next_element_seed reports the end exactly at an 'e'; the visitor
\* holds the elements in wire order, one more per element; and the byte
\* after the visitor's return is consumed: an 'e' ends the list, another
\* byte is ExpectedEnd at its index.
C9_ListDecoding ==
    /\ (ev.fn = "deserialize_seq" /\ ev.at < Len(input)) =>
          IF input[ev.at + 1] = Ch_l
          THEN ev.out = "call" /\ index = ev.at + 1
          ELSE result.st = "err" /\ result.kind = "ExpectedList"
    /\ (ev.fn = "next_element_seed" /\ ev.at < Len(input)) =>
          (ev.out = "none" <=> input[ev.at + 1] = Ch_e)
    /\ (ev.fn = "deserialize_seq_close" /\ ev.at < Len(input)) =>
          IF input[ev.at + 1] = Ch_e
          THEN ev.out = "ok" /\ index = ev.at + 1
          ELSE result = Error_syntax("ExpectedEnd", ev.at) /\ index = ev.at + 1
    /\ (orig # <<>> /\ ty.t = "seq" /\ OnlyIntegersStringsListsMaps(ty)
        /\ Len(stack) >= 2 /\ stack[Len(stack) - 1].op = "visit_seq") =>
          IsPrefix(stack[Len(stack) - 1].acc, orig[1].e)

C9_Witness ==
    /\ ty = TTuple(<<I32, TStr>>)
    /\ ev.fn = "deserialize_seq_close"
    /\ result = Error_syntax("ExpectedEnd", 11)

\* C10, as claimed: at a key position, every byte that is neither 'e' nor a
\* digit is KeyMustBeAString, the cursor not moved.
C10_EveryByteKeyMustBeAString ==
    (ev.fn = "next_key_seed" /\ ev.at < Len(input)
     /\ input[ev.at + 1] # Ch_e /\ ~GrammarDigit(input[ev.at + 1])) =>
        /\ result.st = "err"
        /\ result.kind = "KeyMustBeAString"
        /\ index = ev.at

\* C10, amended: at a key position, 'i', 'l' and 'd' are KeyMustBeAString
\* (at the index before the cursor) and every other byte that is neither
\* 'e' nor a digit is ExpectedEnd at the cursor; no value is decoded and the
\* cursor is not moved.
C10_KeyMustBeAString ==
    (ev.fn = "next_key_seed" /\ ev.at < Len(input)
     /\ input[ev.at + 1] # Ch_e /\ ~GrammarDigit(input[ev.at + 1])) =>
        /\ index = ev.at
        /\ stack = <<>>
        /\ IF input[ev.at + 1] \in {Ch_i, Ch_l, Ch_d}
           THEN result = Error_syntax("KeyMustBeAString", ev.at - 1)
           ELSE result = Error_syntax("ExpectedEnd", ev.at)

C10_Witness ==
    /\ ev.fn = "next_key_seed"
    /\ Has(ev.at, Ch_i)
    /\ result = Error_syntax("KeyMustBeAString", ev.at - 1)

\* C11: an enum in the dict form holds exactly one pair.  After the variant
\* name and its payload, deserialize_enum consumes one byte: an 'e' ends
\* the enum, another byte (the first of a second pair, say) is ExpectedEnd
\* at its index.  A dict that from_bytes accepts as an enum is 'd', one name
\* token, one payload and 'e'; "de" is never accepted.
C11_EnumDictOnePair ==
    /\ (ev.fn = "deserialize_enum_close" /\ ev.at < Len(input)) =>
          IF input[ev.at + 1] = Ch_e
          THEN ev.out = "ok" /\ index = ev.at + 1
          ELSE result = Error_syntax("ExpectedEnd", ev.at) /\ index = ev.at + 1
    /\ (ty.t = "enum" /\ Has(0, Ch_d) /\ result.st = "ok") =>
          LET x == result.value
              i == VariantIndex(ty, x.name)
          IN  /\ i # 0
              /\ input = <<Ch_d>> \o serialize_str(x.name)
                            \o to_bytes(ty.tys[i], x.x) \o <<Ch_e>>
    /\ (ty.t = "enum" /\ Has(0, Ch_d) /\ Has(1, Ch_e)) => result.st # "ok"

C11_Witness ==
    /\ ty = EnumT
    /\ input = <<100, 49, 58, 97, 105, 49, 101, 49, 58, 97, 105, 50, 101, 101>>
    /\ ev.fn = "deserialize_enum_close"
    /\ result = Error_syntax("ExpectedEnd", 7)

\* C12: to_bytes writes no byte for None, for the unit value and for a unit
\* struct; for Some(x) it writes the bytes it writes for x, and no other.
C12_AbsenceEncodesToNothing ==
    (orig # <<>> /\ ev.fn # "main") =>
        /\ ty.t \in {"unit", "unit_struct"} => input = <<>>
        /\ (ty.t = "option" /\ orig[1] = NoneVal) => input = <<>>
        /\ (ty.t = "option" /\ orig[1].v = "some") =>
              /\ input = to_bytes(ty.inner, orig[1].x)
              /\ input # <<>>

C12_Witness ==
    /\ ty = TOption(I64)
    /\ orig = <<NoneVal>>
    /\ ev.fn = "to_bytes"
    /\ input = <<>>

\* The token of a key of fewer than ten bytes: its length as one digit, ':'
\* and the key.
KeyToken(k) == <<48 + Len(k), 58>> \o k

\* The pairs from position i on, each key token before its value token, in
\* the order of keys.
RECURSIVE PairsInOrder(_, _, _, _)
PairsInOrder(keys, tys, vals, i) ==
    IF i > Len(keys) THEN <<>>
    ELSE KeyToken(keys[i]) \o to_bytes(tys[i], vals[i])
         \o PairsInOrder(keys, tys, vals, i + 1)

Reversed(s) == [i \in 1..Len(s) |-> s[Len(s) + 1 - i]]

\* C13: for a map and for a struct, to_bytes writes 'd', then for each pair
\* in the order given its key token and its value token, then 'e'; the
\* keys are not sorted, and the same pairs given in the opposite order are
\* written to different bytes.
C13_KeyOrderPreserved ==
    (orig # <<>> /\ ev.fn # "main") =>
        /\ ty.t = "map" =>
              LET m == orig[1].m
                  n == Len(m)
              IN  /\ input = <<100>>
                        \o PairsInOrder([i \in 1..n |-> m[i][1]], [i \in 1..n |-> ty.val],
                                        [i \in 1..n |-> m[i][2]], 1)
                        \o <<101>>
                  /\ n >= 2 => to_bytes(ty, MapVal(Reversed(m))) # input
        /\ ty.t = "struct" =>
              input = <<100>> \o PairsInOrder(ty.names, ty.tys, orig[1].f, 1) \o <<101>>

C13_Witness ==
    /\ ty.t = "map"
    /\ orig # <<>>
    /\ Len(orig[1].m) = 2
    /\ orig[1].m[1][1] = <<Ch_b>>
    /\ orig[1].m[2][1] = <<Ch_a>>
    /\ ev.fn = "to_bytes"
    /\ SubSeq(input, 1, 4) = <<Ch_d, Ch_1, Ch_colon, Ch_b>>

\* C14: for every value of every integer type, to_bytes writes 'i', the
\* canonical decimal text of the value ('-' exactly for a negative value,
\* no '0' in front, never "-0") and 'e'; from_bytes at the same type accepts
\* the token and returns the value.
C14_IntegerEncodingCanonical ==
    (orig # <<>> /\ ty.t = "int" /\ ev.fn # "main") =>
        LET body == SubSeq(input, 2, Len(input) - 1)
            digits == IF orig[1].neg THEN Tail(body) ELSE body
        IN  /\ Len(input) >= 3
            /\ input[1] = 105
            /\ input[Len(input)] = 101
            /\ GrammarBody(body, FALSE)
            /\ (body[1] = 45) <=> orig[1].neg
            /\ TextMagnitude(digits) = [mag |-> orig[1].mag, over |-> FALSE]
            /\ result # Running => result = OkRes(orig[1])

C14_Witness ==
    /\ ty = I8
    /\ orig = <<IntVal(TRUE, PowHalf(8))>>
    /\ input = <<105, 45, 49, 50, 56, 101>>
    /\ result = OkRes(orig[1])

\* C15: for every string and every byte buffer b, to_bytes writes the
\* canonical decimal text of the number of bytes of b (not of characters),
\* then ':', then the bytes of b unchanged.
C15_StringEncoding ==
    (orig # <<>> /\ ty.t \in {"str", "bytes"} /\ ev.fn # "main") =>
        LET b == orig[1].b
            n == Len(input) - Len(b) - 1
            prefix == SubSeq(input, 1, n)
        IN  /\ n >= 1
            /\ GrammarNat(prefix)
            /\ TextMagnitude(prefix) = [mag |-> U64OfSmall(Len(b)), over |-> FALSE]
            /\ input[n + 1] = 58
            /\ SubSeq(input, n + 2, Len(input)) = b

C15_Witness ==
    /\ ty = TStr
    /\ orig = <<BytesVal(<<195, 169>>)>>
    /\ ev.fn = "to_bytes"
    /\ input = <<50, 58, 195, 169>>

\* The bytes to_bytes writes for the values vals of the types tys, one
\* after the other, from position i on.
RECURSIVE TokensInOrder(_, _, _)
TokensInOrder(tys, vals, i) ==
    IF i > Len(vals) THEN <<>>
    ELSE to_bytes(tys[i], vals[i]) \o TokensInOrder(tys, vals, i + 1)

\* The number the decimal digits s write (a short length prefix).
RECURSIVE SmallNat(_)
SmallNat(s) ==
    IF s = <<>> THEN 0 ELSE SmallNat(SubSeq(s, 1, Len(s) - 1)) * 10 + (s[Len(s)] - 48)

\* The first position from k on where s holds c; Len(s) + 1 when none does.
FirstAt(s, k, c) ==
    CHOOSE j \in k..(Len(s) + 1) :
        /\ j = Len(s) + 1 \/ s[j] = c
        /\ \A m \in k..(j - 1) : s[m] # c

\* The number of 'l' and 'd' openers of s still without their 'e' after
\* the tokens of s from position k on have been read at depth d; -1 when
\* an 'e' has no opener before it or a token is cut short.
RECURSIVE OpenAfter(_, _, _)
OpenAfter(s, k, d) ==
    IF k > Len(s) THEN d
    ELSE IF s[k] \in {108, 100} THEN OpenAfter(s, k + 1, d + 1)
    ELSE IF s[k] = 101 THEN IF d = 0 THEN -1 ELSE OpenAfter(s, k + 1, d - 1)
    ELSE IF s[k] = 105
        THEN LET j == FirstAt(s, k + 1, 101)
             IN  IF j > Len(s) THEN -1 ELSE OpenAfter(s, j + 1, d)
    ELSE IF GrammarDigit(s[k])
        THEN LET j == FirstAt(s, k, 58)
                 n == SmallNat(SubSeq(s, k, j - 1))
             IN  IF j + n > Len(s) THEN -1 ELSE OpenAfter(s, j + n + 1, d)
    ELSE -1

\* C16: to_bytes writes a list and a tuple as 'l', the elements, 'e'; a
\* newtype variant as 'd', the name of the variant as a string, the value,
\* 'e'; a tuple variant as 'd', the name, 'l', the fields, 'e', 'e'; a
\* struct variant as 'd', the name, 'd', each field's name and value, 'e',
\* 'e'.  In the output every 'l' and 'd' has its own 'e' after its
\* contents, properly nested.
C16_CompositeFraming ==
    (orig # <<>> /\ ev.fn # "main") =>
        LET x == orig[1] IN
        /\ ty.t = "seq" =>
              input = <<108>> \o TokensInOrder([i \in 1..Len(x.e) |-> ty.elem], x.e, 1)
                      \o <<101>>
        /\ ty.t = "tuple" =>
              input = <<108>> \o TokensInOrder(ty.elems, x.e, 1) \o <<101>>
        /\ ty.t = "enum" =>
              LET i == VariantIndex(ty, x.name)
                  kind == ty.kinds[i]
                  name == KeyToken(x.name)
              IN  /\ kind = "newtype" =>
                        input = <<100>> \o name \o to_bytes(ty.tys[i], x.x) \o <<101>>
                  /\ kind = "tuple" =>
                        input = <<100>> \o name \o <<108>>
                                \o TokensInOrder(ty.tys[i].elems, x.x.e, 1)
                                \o <<101, 101>>
                  /\ kind = "struct" =>
                        input = <<100>> \o name \o <<100>>
                                \o PairsInOrder(ty.tys[i].names, ty.tys[i].tys, x.x.f, 1)
                                \o <<101, 101>>
        /\ OpenAfter(input, 1, 0) = 0

C16_Witness ==
    /\ ty = EnumT
    /\ orig # <<>>
    /\ orig[1].name = <<Ch_a, Ch_b>>
    /\ ev.fn = "to_bytes"
    /\ SubSeq(input, 1, 6) = <<Ch_d, 50, Ch_colon, Ch_a, Ch_b, Ch_l>>
    /\ SubSeq(input, Len(input) - 1, Len(input)) = <<Ch_e, Ch_e>>

\* C17: deserialize_option yields the absent value exactly when the cursor
\* is at the end of the input when it is called; it does not move the
\* cursor; with a byte left it decodes the inner value from the cursor and
\* wraps it in Some, or the call ends with the inner value's error.
C17_OptionByPresence ==
    /\ ev.fn = "deserialize_option" =>
          /\ ev.out = "none" <=> ev.at = Len(input)
          /\ ev.out = "some" <=> ev.at < Len(input)
          /\ index = ev.at
          /\ result = Running
          /\ ev.out = "some" =>
                /\ Len(stack) >= 3
                /\ stack[1] = [op |-> "deserialize", ty |-> ev.ty.inner]
                /\ stack[2].op = "visit_some"
          /\ (ev.out = "none" /\ ty.t = "option") =>
                stack = <<[op |-> "from_bytes", acc |-> <<NoneVal>>]>>
    /\ (ty.t = "option" /\ result.st = "ok") =>
          /\ result.value = NoneVal <=> input = <<>>
          /\ input # <<>> => result.value.v = "some"

C17_Witness ==
    /\ ty = TOption(I64)
    /\ input = <<105, 50, 101>>
    /\ orig = <<>>
    /\ result = OkRes(SomeVal(Small(2)))

\* C18: for a struct with an optional integer field and for a list of
\* optional integers, from_bytes of to_bytes(v) returns a value equal to v,
\* with the option Some(x) and with the option None.
C18_OptionsInsideComposites ==
    (orig # <<>> /\ ty \in {StructOptFirst, StructOptLast, TSeq(TOption(I64))}
     /\ result # Running) =>
        result = OkRes(orig[1])

\* C19: in every step of a call of from_bytes the cursor does not decrease
\* and does not pass the length of the input; it moves only over bytes
\* that next_byte has read inside the input (one per call of next_byte, at
\* most two calls in a step of parse_integer), or, in parse_bytes, over a
\* payload of the declared length that lies wholly inside the input.
C19_CursorInvariant ==
    [][/\ index' >= index
       /\ index' <= Len(input')
       /\ index' # index =>
             /\ input' = input
             /\ index < Len(input)
             /\ IF ev'.fn = "parse_bytes"
                THEN /\ ev'.out = "ok"
                     /\ input[index] = 58
                     /\ index' - index = SmallNat(SubSeq(input, ev'.start + 1, index - 1))
                ELSE /\ ev'.fn \in {"parse_number", "parse_integer", "parse_bool",
                                    "deserialize_seq", "deserialize_seq_close",
                                    "deserialize_map", "deserialize_map_close",
                                    "deserialize_enum", "deserialize_enum_close"}
                     /\ index' - index <= (IF ev'.fn = "parse_integer" THEN 2 ELSE 1)]_vars

C19_Witness ==
    /\ ty = TStr
    /\ input = <<49, 49, 58, 104, 101, 108, 108, 111, 32, 119, 111, 114, 108, 100>>
    /\ ev.fn = "parse_bytes"
    /\ ev.at = 3
    /\ index = 14

\* C20: for every input and every type asked for, a list of unit values or
\* of unit structs among them, from_bytes eventually returns a value or an
\* error.
C20_DecodeTerminates == <>(result # Running)

\* C21: every end-of-input error and every syntax error that from_bytes
\* returns carries an offset between 0 and the length of the input, and no
\* offset is computed by a subtraction that overflows (deserialize_any and
\* deserialize_enum with the cursor at 0 on a byte that starts no value
\* among the cases).
C21_OffsetsInsideInput ==
    /\ (result.st = "err" /\ result.index # <<>>) =>
          0 <= result.index[1] /\ result.index[1] <= Len(input)
    /\ result # Panic("attempt to subtract with overflow")

\* What the terminator arm of parse_integer makes of a canonical number
\* token of magnitude 2^64 or more, when the step that has just ended read
\* the 'e' of such a token: the magnitude reduced modulo 2^64 (for a token
\* with '-', minus that as a 64-bit two's complement) is checked against the
\* range of the type asked for.
WrappedTokenChecked ==
    (ev.fn = "parse_integer" /\ ~ev.pstr /\ ev.out # "loop" /\ result.st # "panic") =>
        LET text == SubSeq(input, ev.start + 1, index)
            body == SubSeq(text, 1, Len(text) - 1)
            neg == body[1] = Ch_minus
            m == TextMagnitude(IF neg THEN Tail(body) ELSE body)
            x == IF neg THEN OfI64(U64Neg(m.mag)) ELSE OfU64(m.mag)
        IN  (/\ Len(text) >= 2
             /\ text[Len(text)] = Ch_e
             /\ GrammarBody(body, FALSE)
             /\ m.over) =>
                IF InRange(ev.ty.signed, ev.ty.bits, x)
                THEN ev.out = "ok" /\ ev.ret = <<x>>
                ELSE result = Error_syntax("IntegerOutOfRange", ev.start - 1)

C23_FirstFailureAborts ==
    [][/\ result = Running
       /\ ev'.out = "err" => result'.st \in {"err", "panic"}
       /\ result' # Running => stack' = <<>>]_vars

C23_Witness ==
    /\ ty = TSeq(I32)
    /\ input = <<108, 105, 50, 50, 101, 52, 58, 116, 101, 115, 116, 101>>
    /\ result = Error_syntax("ExpectedInteger", 5)
    /\ ev.fn = "parse_number"
    /\ index = 6
    /\ stack = <<>>

\* C24: deserialize_any peeks one byte and consumes none; it goes on to
\* deserialize_i64 for 'i', deserialize_str for a digit, deserialize_seq
\* for 'l', deserialize_map for 'd'; for every other byte it returns
\* ExpectedSomeValue, and with no byte left an end-of-input error.
C24_TagDispatch ==
    ev.fn = "deserialize_any" =>
        /\ index = ev.at
        /\ IF ev.at >= Len(input) THEN result = Error_eof(ev.at)
           ELSE LET c == input[ev.at + 1] IN
                IF c = 105 \/ GrammarDigit(c) \/ c = 108 \/ c = 100
                THEN /\ result = Running
                     /\ Head(stack).op = "deserialize"
                     /\ c = 105 => Head(stack).ty = I64
                     /\ GrammarDigit(c) => Head(stack).ty = TStr
                     /\ c = 108 => Head(stack).ty.t = "seq"
                     /\ c = 100 => Head(stack).ty.t = "map"
                ELSE result.st = "err" /\ result.kind = "ExpectedSomeValue"

\* C25: at the first write to the sink that fails the encoder performs no
\* further writes, and to_writer returns an I/O-kind error that carries no
\* byte offset; the bytes written before the failure remain in the sink.
\* Every write appends to the sink; a failed write ends to_writer with
\* Error::io (index None) and a sink that holds a proper prefix of the
\* encoding; once to_writer has returned the sink no longer changes; without
\* a failure the sink holds the whole encoding.
C25_SinkFailure ==
    [][/\ result # Running => writer' = writer
       /\ ev'.fn = "write_all" =>
             LET all == to_bytes(Top.ty, Top.value) IN
             /\ IsPrefix(writer, writer')
             /\ IsPrefix(writer', all)
             /\ ev'.out = "err" =>
                   /\ result' = Error_io
                   /\ result'.kind = "Io" /\ result'.index = <<>>
                   /\ stack' = <<>>
                   /\ writer' # all
             /\ ev'.out = "ok" =>
                   /\ result'.st \in {"running", "ok"}
                   /\ result'.st = "ok" => writer' = all]_vars

\* A list of integers whose encoding failed after the sink had accepted the
\* opening 'l', the first element and the 'i' of the second.
C25_Witness ==
    /\ ev.fn = "write_all" /\ ev.out = "err"
    /\ ev.ty = TSeq(I64)
    /\ result = Error_io
    /\ Len(writer) = 5
    /\ writer[1] = Ch_l /\ writer[2] = Ch_i /\ writer[4] = Ch_e /\ writer[5] = Ch_i

\* The position after the well-formed value that starts at position k of s
\* (positions from 1), or 0 when none starts there; GrammarItemsEnd is the
\* same for the items of a list or of a dict (atKey: a key comes next) up
\* to and with the closing 'e'.
RECURSIVE GrammarValueEnd(_, _)
RECURSIVE GrammarItemsEnd(_, _, _, _)
GrammarValueEnd(s, k) ==
    IF k > Len(s) THEN 0
    ELSE IF s[k] = 105
        THEN LET j == FirstAt(s, k + 1, 101)
             IN  IF j > Len(s) \/ ~GrammarBody(SubSeq(s, k + 1, j - 1), FALSE) THEN 0
                 ELSE j + 1
    ELSE IF GrammarDigit(s[k])
        THEN LET j == FirstAt(s, k, 58)
             IN  IF j > Len(s) \/ j - k > 9 \/ ~GrammarBody(SubSeq(s, k, j - 1), TRUE) THEN 0
                 ELSE IF j + SmallNat(SubSeq(s, k, j - 1)) > Len(s) THEN 0
                 ELSE j + SmallNat(SubSeq(s, k, j - 1)) + 1
    ELSE IF s[k] = 108 THEN GrammarItemsEnd(s, k + 1, FALSE, FALSE)
    ELSE IF s[k] = 100 THEN GrammarItemsEnd(s, k + 1, TRUE, TRUE)
    ELSE 0

GrammarItemsEnd(s, k, dict, atKey) ==
    IF k > Len(s) THEN 0
    ELSE IF s[k] = 101 THEN IF dict /\ ~atKey THEN 0 ELSE k + 1
    ELSE IF atKey /\ ~GrammarDigit(s[k]) THEN 0
    ELSE LET j == GrammarValueEnd(s, k)
         IN  IF j = 0 THEN 0 ELSE GrammarItemsEnd(s, j, dict, dict /\ ~atKey)

\* deserialize_ignored_any is in progress: it has been called, or a call it
\* made has not returned.
Ignoring ==
    /\ result = Running
    /\ stack # <<>>
    /\ \/ Top.op = "deserialize" /\ Top.ty.t = "ignored"
       \/ \E k \in 1..Len(stack) : stack[k].op = "ignore"

\* C26: deserialize_ignored_any applied at the start of any well-formed
\* value (an integer, a byte string with any payload, a list, a dict)
\* consumes exactly that value and returns without error.  In an input that
\* is one well-formed value every value that is skipped is well-formed: no
\* step taken while deserialize_ignored_any is in progress ends the decode
\* with an error or a panic, and from_bytes::<IgnoredAny> returns Ok with
\* the cursor at the end of the input.
C26_SkipSucceeds ==
    [][(Ignoring /\ GrammarValueEnd(input, 1) = Len(input) + 1) =>
          /\ result'.st \notin {"err", "panic"}
          /\ (ty = TIgnored /\ result' # Running) =>
                result' = OkRes(IgnoredVal) /\ index' = Len(input)]_vars

=============================================================================
